---- MODULE Spec2Model ----
(***************************************************************************)
(* A model of the file-explorer servers of this repository: the root       *)
(* configuration (ROOT_FOLDER), the path guard of the request handlers,    *)
(* and the directory enumerators.                                          *)
(*                                                                         *)
(* Strings are sequences of one-character strings, so that                  *)
(* String.prototype.startsWith and the POSIX functions of node's `path`    *)
(* module (join, normalize, resolve, basename) are modelled on characters, *)
(* as node computes them.                                                  *)
(***************************************************************************)
EXTENDS Integers, Sequences, FiniteSets, TLC

(***************************************************************************)
(* Bounds of the model.                                                    *)
(***************************************************************************)
\* the longest caller-supplied relative path, in segments
MaxSegs == 2

\* null and undefined
Null == <<"null">>

(***************************************************************************)
(* Characters and strings.                                                 *)
(***************************************************************************)
SLASH == "/"
DOT == <<".">>
DOTDOT == <<".", ".">>

\* String.prototype.startsWith
StartsWith(s, prefix) ==
    /\ Len(prefix) <= Len(s)
    /\ SubSeq(s, 1, Len(prefix)) = prefix

\* String.prototype.endsWith
EndsWith(s, suffix) ==
    /\ Len(suffix) <= Len(s)
    /\ SubSeq(s, Len(s) - Len(suffix) + 1, Len(s)) = suffix

Last(s) == s[Len(s)]
Front(s) == SubSeq(s, 1, Len(s) - 1)

\* the segments of a string between its slashes (empty segments included)
RECURSIVE SplitAcc(_, _, _)
SplitAcc(s, cur, acc) ==
    IF s = <<>> THEN Append(acc, cur)
    ELSE IF Head(s) = SLASH THEN SplitAcc(Tail(s), <<>>, Append(acc, cur))
    ELSE SplitAcc(Tail(s), Append(cur, Head(s)), acc)

Split(s) == SplitAcc(s, <<>>, <<>>)

\* segments joined with "/"
RECURSIVE JoinSegs(_)
JoinSegs(segs) ==
    IF segs = <<>> THEN <<>>
    ELSE IF Len(segs) = 1 THEN segs[1]
    ELSE segs[1] \o <<SLASH>> \o JoinSegs(Tail(segs))

\* node lib/path.js normalizeString, on the list of segments: "" and "." are
\* dropped, ".." removes the segment before it, or is kept (relative path)
\* or dropped (absolute path) when there is none to remove
RECURSIVE NormSegs(_, _, _)
NormSegs(segs, allowAboveRoot, res) ==
    IF segs = <<>> THEN res
    ELSE LET seg == Head(segs)
             rest == Tail(segs)
         IN  IF seg = <<>> \/ seg = DOT THEN NormSegs(rest, allowAboveRoot, res)
             ELSE IF seg = DOTDOT
                  THEN IF res # <<>> /\ Last(res) # DOTDOT
                       THEN NormSegs(rest, allowAboveRoot, Front(res))
                       ELSE IF allowAboveRoot
                            THEN NormSegs(rest, allowAboveRoot, Append(res, DOTDOT))
                            ELSE NormSegs(rest, allowAboveRoot, res)
                  ELSE NormSegs(rest, allowAboveRoot, Append(res, seg))

IsAbsolute(s) == s # <<>> /\ s[1] = SLASH

\* path.normalize (posix)
PathNormalize(s) ==
    IF s = <<>> THEN DOT
    ELSE LET isAbs == IsAbsolute(s)
             trailing == Last(s) = SLASH
             body == JoinSegs(NormSegs(Split(s), ~isAbs, <<>>))
         IN  IF body = <<>>
             THEN IF isAbs THEN <<SLASH>>
                  ELSE IF trailing THEN <<".", SLASH>> ELSE DOT
             ELSE (IF isAbs THEN <<SLASH>> ELSE <<>>) \o body
                  \o (IF trailing THEN <<SLASH>> ELSE <<>>)

\* path.join (posix): the non-empty arguments joined with "/", normalized
RECURSIVE JoinArgs(_)
JoinArgs(args) ==
    IF args = <<>> THEN <<>>
    ELSE LET rest == JoinArgs(Tail(args))
         IN  IF Head(args) = <<>> THEN rest
             ELSE IF rest = <<>> THEN Head(args)
             ELSE Head(args) \o <<SLASH>> \o rest

PathJoin(args) ==
    IF JoinArgs(args) = <<>> THEN DOT ELSE PathNormalize(JoinArgs(args))

\* process.cwd() of the server, also __dirname of its script
Cwd == <<SLASH, "r">>

\* path.resolve (posix) of one argument: an absolute path without ".", ".."
\* or a trailing slash; a relative argument is taken from process.cwd()
PathResolve(s) ==
    LET abs == IF IsAbsolute(s) THEN s
               ELSE IF s = <<>> THEN Cwd ELSE Cwd \o <<SLASH>> \o s
    IN  <<SLASH>> \o JoinSegs(NormSegs(Split(abs), FALSE, <<>>))

\* path.basename (posix): the last segment, trailing slashes ignored
RECURSIVE StripTrailing(_)
StripTrailing(s) ==
    IF s # <<>> /\ Last(s) = SLASH THEN StripTrailing(Front(s)) ELSE s

PathBasename(s) ==
    LET t == StripTrailing(s)
    IN  IF t = <<>> THEN <<>> ELSE Last(Split(t))

\* path.extname (posix): from the last "." of the basename, unless the name
\* has none or starts with its only one
RECURSIVE LastDot(_, _)
LastDot(s, i) == IF i = 0 THEN 0 ELSE IF s[i] = "." THEN i ELSE LastDot(s, i - 1)

PathExtname(s) ==
    LET base == PathBasename(s)
        d == LastDot(base, Len(base))
    IN  IF d <= 1 \/ base = DOTDOT THEN <<>> ELSE SubSeq(base, d, Len(base))

(***************************************************************************)
(* The filesystem the server runs on.  A filesystem maps the canonical     *)
(* path of each directory to its entries, in the order readdir returns     *)
(* them; noread holds the directories whose readdir fails (EACCES).        *)
(***************************************************************************)
nA == <<"a">>
nB == <<"b">>
nF == <<"f">>
nG == <<"g">>
nR == <<"r">>
nRE == <<"r", "e">>
nSUN == <<"s", "u", "n">>
nL == <<"l">>
nNodeModules == <<"n", "o", "d", "e", "_", "m", "o", "d", "u", "l", "e", "s">>
nGit == <<".", "g", "i", "t">>

Dir(n) == [name |-> n, kind |-> "dir"]
File(n) == [name |-> n, kind |-> "file"]
\* a symbolic link whose target does not exist
Link(n) == [name |-> n, kind |-> "link"]

\* the canonical string of a list of segments
CanonStr(segs) == <<SLASH>> \o JoinSegs(segs)

MkFS(rOrder, reEnts, noread) ==
    [ents |->
        (CanonStr(<<>>) :> <<Dir(nRE), Dir(nR)>>) @@
        (CanonStr(<<nR>>) :> rOrder) @@
        (CanonStr(<<nR, nA>>) :> <<File(nF)>>) @@
        (CanonStr(<<nR, nB>>) :> <<Dir(nB), File(nF)>>) @@
        (CanonStr(<<nR, nB, nB>>) :> <<Dir(nA)>>) @@
        (CanonStr(<<nR, nB, nB, nA>>) :> <<File(nF)>>) @@
        (CanonStr(<<nR, nSUN>>) :> <<File(nF)>>) @@
        (CanonStr(<<nRE>>) :> reEnts) @@
        (CanonStr(<<nR, nGit>>) :> <<Dir(nA)>>) @@
        (CanonStr(<<nR, nGit, nA>>) :> <<>>) @@
        (CanonStr(<<nR, nNodeModules>>) :> <<Dir(nB)>>) @@
        (CanonStr(<<nR, nNodeModules, nB>>) :> <<>>),
     noread |-> noread,
     data |-> [d \in {} |-> <<>>]]

FileSystems ==
    { MkFS(<<Dir(nA), Dir(nB), File(nF), File(nG), Dir(nSUN)>>, <<File(nF)>>, {}),
      MkFS(<<Dir(nSUN), File(nG), File(nF), Dir(nB), Dir(nA)>>, <<File(nF)>>, {}),
      MkFS(<<Dir(nA), Dir(nB), File(nF), File(nG), Dir(nSUN)>>, <<>>, {}),
      MkFS(<<Dir(nA), Dir(nB), File(nF), File(nG), Dir(nSUN)>>, <<File(nF)>>,
           {CanonStr(<<nR, nA>>)}),
      MkFS(<<Dir(nGit), Dir(nA), Link(nL), Dir(nNodeModules), Dir(nB), File(nF)>>,
           <<File(nF)>>, {}) }

\* the result of a call that may fail: a value, or the name of the error
Ok(v) == [ok |-> TRUE, val |-> v]
Err(e) == [ok |-> FALSE, val |-> e]
IsErr(x) == ~x.ok

\* the kind of the entry of that name among the entries of a directory
EntryKind(entries, name) ==
    LET hits == { i \in 1..Len(entries) : entries[i].name = name }
    IN  IF hits = {} THEN "ENOENT" ELSE entries[CHOOSE i \in hits : TRUE].kind

\* the kind of the entry at a canonical list of segments, or "ENOENT"
KindOf(f, segs) ==
    IF segs = <<>> THEN "dir"
    ELSE IF CanonStr(Front(segs)) \notin DOMAIN f.ents THEN "ENOENT"
    ELSE EntryKind(f.ents[CanonStr(Front(segs))], Last(segs))

\* the operating system's path walk: every segment is looked up in the
\* directory reached so far; the result is the list of segments reached
RECURSIVE Walk(_, _, _)
Walk(f, segs, cur) ==
    IF segs = <<>> THEN Ok(cur)
    ELSE IF KindOf(f, cur) # "dir" THEN Err("ENOTDIR")
    ELSE IF Head(segs) \notin {<<>>, DOT, DOTDOT}
            /\ KindOf(f, Append(cur, Head(segs))) \in {"ENOENT", "link"}
    THEN Err("ENOENT")
    ELSE Walk(f, Tail(segs),
              IF Head(segs) \in {<<>>, DOT} THEN cur
              ELSE IF Head(segs) = DOTDOT
                   THEN (IF cur = <<>> THEN cur ELSE Front(cur))
                   ELSE Append(cur, Head(segs)))

\* where a path given to an fs call leads: relative paths start at the
\* working directory
Lookup(f, path) ==
    IF path = <<>> THEN Err("ENOENT")
    ELSE Walk(f, Split(path),
              IF IsAbsolute(path) THEN <<>> ELSE Tail(Split(Cwd)))

\* fs.stat: the kind of the entry
StatAt(f, at) == IF IsErr(at) THEN at ELSE Ok(KindOf(f, at.val))
FsStat(f, path) == StatAt(f, Lookup(f, path))

\* fs.access: TRUE when the entry exists
FsAccess(f, path) == ~IsErr(Lookup(f, path))

\* fs.readdir with withFileTypes: the entries in directory order
ReaddirAt(f, at) ==
    IF IsErr(at) THEN at
    ELSE IF KindOf(f, at.val) # "dir" THEN Err("ENOTDIR")
    ELSE IF CanonStr(at.val) \in f.noread THEN Err("EACCES")
    ELSE Ok(f.ents[CanonStr(at.val)])
FsReaddir(f, path) == ReaddirAt(f, Lookup(f, path))

\* the bytes of the file at a canonical path; a file the filesystem gives
\* no bytes for holds the two bytes of "hi"
FileData(f, canon) ==
    IF canon \in DOMAIN f.data THEN f.data[canon] ELSE <<104, 105>>

\* fs.readFile without an encoding: the bytes of the file
ReadFileAt(f, at) ==
    IF IsErr(at) THEN at
    ELSE IF KindOf(f, at.val) = "dir" THEN Err("EISDIR")
    ELSE Ok(FileData(f, CanonStr(at.val)))
FsReadFile(f, path) == ReadFileAt(f, Lookup(f, path))

\* Buffer.prototype.toString('utf8'), for one- and two-byte sequences: the
\* code points of the bytes, U+FFFD for a byte that starts no sequence
RECURSIVE Utf8Decode(_)
Utf8Decode(bytes) ==
    IF bytes = <<>> THEN <<>>
    ELSE IF Head(bytes) < 128 THEN <<Head(bytes)>> \o Utf8Decode(Tail(bytes))
    ELSE IF /\ Head(bytes) \in 194..223
            /\ Len(bytes) >= 2
            /\ bytes[2] \in 128..191
    THEN <<(Head(bytes) - 192) * 64 + (bytes[2] - 128)>>
         \o Utf8Decode(Tail(Tail(bytes)))
    ELSE <<65533>> \o Utf8Decode(Tail(bytes))

\* the text of a read, or its error
DecodedText(got) == IF IsErr(got) THEN got ELSE Ok(Utf8Decode(got.val))

\* fs.readFile(path, 'utf8')
FsReadFileUtf8(f, path) == DecodedText(FsReadFile(f, path))

\* the alphabet of base64
Base64Alphabet ==
    <<"A", "B", "C", "D", "E", "F", "G", "H", "I", "J", "K", "L", "M",
      "N", "O", "P", "Q", "R", "S", "T", "U", "V", "W", "X", "Y", "Z",
      "a", "b", "c", "d", "e", "f", "g", "h", "i", "j", "k", "l", "m",
      "n", "o", "p", "q", "r", "s", "t", "u", "v", "w", "x", "y", "z",
      "0", "1", "2", "3", "4", "5", "6", "7", "8", "9", "+", "/">>

\* Buffer.prototype.toString('base64'): three bytes give four characters, a
\* last group of one or two bytes is padded with "="
RECURSIVE Base64Encode(_)
Base64Encode(bytes) ==
    IF bytes = <<>> THEN <<>>
    ELSE IF Len(bytes) = 1
    THEN <<Base64Alphabet[(bytes[1] \div 4) + 1],
           Base64Alphabet[(bytes[1] % 4) * 16 + 1], "=", "=">>
    ELSE IF Len(bytes) = 2
    THEN <<Base64Alphabet[(bytes[1] \div 4) + 1],
           Base64Alphabet[(bytes[1] % 4) * 16 + (bytes[2] \div 16) + 1],
           Base64Alphabet[(bytes[2] % 16) * 4 + 1], "=">>
    ELSE <<Base64Alphabet[(bytes[1] \div 4) + 1],
           Base64Alphabet[(bytes[1] % 4) * 16 + (bytes[2] \div 16) + 1],
           Base64Alphabet[(bytes[2] % 16) * 4 + (bytes[3] \div 64) + 1],
           Base64Alphabet[(bytes[3] % 64) + 1]>>
         \o Base64Encode(SubSeq(bytes, 4, Len(bytes)))

(***************************************************************************)
(* Results of handlers.  A handler yields the status and body it sends and *)
(* the filesystem calls it made, in order.                                 *)
(***************************************************************************)
Op(name, path) == [op |-> name, path |-> path]
Reply(status, ops, body) == [status |-> status, ops |-> ops, body |-> body]
ErrBody(msg) == [error |-> msg]

\* a result [val, ops] with one more call in front of its calls
After(op, got) == [got EXCEPT !.ops = <<op>> \o got.ops]

(***************************************************************************)
(* The path guard of the handlers of the servers with a ROOT_FOLDER.       *)
(***************************************************************************)
\* const fullPath = path.join(ROOT_FOLDER, filePath)
FullPath(root, p) == PathJoin(<<root, p>>)

\* !normalizedPath.startsWith(normalizedRoot)
AccessDenied(root, p) ==
    ~StartsWith(PathResolve(FullPath(root, p)), PathResolve(root))

(***************************************************************************)
(* getFolderStructure, folders only (file_explorer_app.js, f1.js and the   *)
(* servers derived from them): the value returned and the readdir calls.   *)
(***************************************************************************)
\* folders.push({ name, subFolders })
GfsPush(item, sub, rest) ==
    [val |-> <<[name |-> item.name, subFolders |-> sub.val]>> \o rest.val,
     ops |-> sub.ops \o rest.ops]

RECURSIVE GetFolderStructure(_, _)
RECURSIVE GfsItems(_, _, _)
GfsItems(f, dirPath, items) ==
    IF items = <<>> THEN [val |-> <<>>, ops |-> <<>>]
    ELSE IF Head(items).kind = "dir"
    THEN GfsPush(Head(items),
                 GetFolderStructure(f, PathJoin(<<dirPath, Head(items).name>>)),
                 GfsItems(f, dirPath, Tail(items)))
    ELSE GfsItems(f, dirPath, Tail(items))

\* the body of the try block, given what readdir returned; the catch
\* returns []
GfsOf(f, dirPath, items) ==
    IF IsErr(items) THEN [val |-> <<>>, ops |-> <<>>]
    ELSE GfsItems(f, dirPath, items.val)

GetFolderStructure(f, dirPath) ==
    After(Op("readdir", dirPath), GfsOf(f, dirPath, FsReaddir(f, dirPath)))

(***************************************************************************)
(* GET /api/folders/:folderPath                                            *)
(***************************************************************************)
\* structure.folders.push({ name, path, subFolders })
PushFolder(item, itemPath, sub, rest) ==
    [folders |-> <<[name |-> item.name, path |-> itemPath,
                    subFolders |-> sub.val]>> \o rest.folders,
     files |-> rest.files,
     ops |-> sub.ops \o rest.ops]

\* a push of a file with its name as path
PushFileNamed(item, itemPath, rest) ==
    [rest EXCEPT !.files = <<[name |-> item.name, path |-> item.name]>> \o rest.files]

\* structure.files.push({ name, path })
PushFile(item, itemPath, rest) ==
    [rest EXCEPT !.files = <<[name |-> item.name, path |-> itemPath]>> \o rest.files]

\* the loop over the entries of the listed directory
RECURSIVE FolderItems(_, _, _, _)
FolderItems(f, fullPath, folderPath, items) ==
    IF items = <<>> THEN [folders |-> <<>>, files |-> <<>>, ops |-> <<>>]
    ELSE IF Head(items).kind = "dir"
    THEN PushFolder(Head(items), PathJoin(<<folderPath, Head(items).name>>),
                    GetFolderStructure(f, PathJoin(<<fullPath, Head(items).name>>)),
                    FolderItems(f, fullPath, folderPath, Tail(items)))
    ELSE PushFile(Head(items), PathJoin(<<folderPath, Head(items).name>>),
                  FolderItems(f, fullPath, folderPath, Tail(items)))

\* res.json(structure)
ListingReply(readOp, got) ==
    Reply(200, <<readOp>> \o got.ops, [folders |-> got.folders, files |-> got.files])

\* the handler from the readdir on, given what readdir returned: the
\* listing, or the 500 of the catch
ListingOf(f, fullPath, folderPath, items) ==
    IF IsErr(items)
    THEN Reply(500, <<Op("readdir", fullPath)>>, ErrBody(items.val))
    ELSE ListingReply(Op("readdir", fullPath),
                      FolderItems(f, fullPath, folderPath, items.val))

ListFolder(f, fullPath, folderPath) ==
    ListingOf(f, fullPath, folderPath, FsReaddir(f, fullPath))

\* a folders handler whose guard wants the path strictly below the root
FoldersBelowRootOnly(root, f, p) ==
    IF root = Null THEN Reply(400, <<>>, ErrBody("Root folder not configured"))
    ELSE IF \/ AccessDenied(root, p)
            \/ PathResolve(FullPath(root, p)) = PathResolve(root)
    THEN Reply(403, <<>>, ErrBody("Access denied"))
    ELSE ListFolder(f, FullPath(root, p), p)

FoldersHandler(root, f, p) ==
    IF root = Null THEN Reply(400, <<>>, ErrBody("Root folder not configured"))
    ELSE IF AccessDenied(root, p) THEN Reply(403, <<>>, ErrBody("Access denied"))
    ELSE ListFolder(f, FullPath(root, p), p)

\* res.json(structure) of the folders-only tree
TreeReply(got) == Reply(200, got.ops, [structure |-> got.val])

\* a home-structure handler that falls back to the working directory when
\* no root is configured, as GET / of folder_structure_app.js does
HomeStructureOrCwd(root, f) ==
    TreeReply(GetFolderStructure(f, IF root = Null THEN Cwd ELSE root))

\* GET /api/home-structure
HomeStructureHandler(root, f) ==
    IF root = Null THEN Reply(400, <<>>, ErrBody("Root folder not configured"))
    ELSE TreeReply(GetFolderStructure(f, root))

(***************************************************************************)
(* readFileContent of file_explorer_app.js                                 *)
(***************************************************************************)
UpperAlpha == <<"A", "B", "C", "D", "E", "F", "G", "H", "I", "J", "K", "L", "M",
                "N", "O", "P", "Q", "R", "S", "T", "U", "V", "W", "X", "Y", "Z">>
LowerAlpha == <<"a", "b", "c", "d", "e", "f", "g", "h", "i", "j", "k", "l", "m",
                "n", "o", "p", "q", "r", "s", "t", "u", "v", "w", "x", "y", "z">>

\* the place of a character in an alphabet, 0 when it is not in it
IndexIn(alphabet, c) ==
    LET hits == { i \in 1..Len(alphabet) : alphabet[i] = c }
    IN  IF hits = {} THEN 0 ELSE CHOOSE i \in hits : TRUE

\* String.prototype.toLowerCase
LowerChar(c) ==
    IF IndexIn(UpperAlpha, c) = 0 THEN c ELSE LowerAlpha[IndexIn(UpperAlpha, c)]

RECURSIVE ToLowerCase(_)
ToLowerCase(s) ==
    IF s = <<>> THEN <<>> ELSE <<LowerChar(Head(s))>> \o ToLowerCase(Tail(s))

\* ext.slice(1)
Slice1(s) == IF s = <<>> THEN <<>> ELSE Tail(s)

extPdf == <<".", "p", "d", "f">>
extXlsx == <<".", "x", "l", "s", "x">>
extXls == <<".", "x", "l", "s">>
extDocx == <<".", "d", "o", "c", "x">>
extDoc == <<".", "d", "o", "c">>
extPptx == <<".", "p", "p", "t", "x">>
extPpt == <<".", "p", "p", "t">>

\* processExcelFile, processDocxFile, processPptFile: the file is read and a
\* fixed text naming it is returned; a failed read becomes an error text
OfficeText(filePath, what, buffer) ==
    IF IsErr(buffer) THEN [tag |-> "errorText", what |-> what, of |-> buffer.val]
    ELSE [tag |-> "detectedText", what |-> what, of |-> PathBasename(filePath)]

ProcessOfficeFile(f, filePath, what) ==
    OfficeText(filePath, what, FsReadFile(f, filePath))

\* the fileInfo object before the switch
FileInfo(filePath, ext) ==
    [size |-> <<"sizeOf", filePath>>, type |-> Slice1(ext), isText |-> FALSE,
     isBinary |-> FALSE, content |-> [tag |-> "empty"], error |-> Null,
     downloadable |-> FALSE]

\* the default branch of the switch, given what fs.readFile returned
TextInfo(info, text) ==
    IF IsErr(text)
    THEN [info EXCEPT !.isText = TRUE, !.error = <<text.val>>,
                      !.content = [tag |-> "unableToRead"]]
    ELSE [info EXCEPT !.isText = TRUE,
                      !.content = [tag |-> "utf8", of |-> text.val]]

\* the switch on the extension
SwitchExt(f, filePath, ext, info) ==
    IF ext = extPdf
    THEN [info EXCEPT !.isBinary = TRUE, !.downloadable = TRUE,
                      !.content = [tag |-> "pdfPlaceholder"]]
    ELSE IF ext \in {extXlsx, extXls}
    THEN [info EXCEPT !.isBinary = TRUE,
                      !.content = ProcessOfficeFile(f, filePath, "excel")]
    ELSE IF ext = extDocx
    THEN [info EXCEPT !.isBinary = TRUE,
                      !.content = ProcessOfficeFile(f, filePath, "word")]
    ELSE IF ext = extDoc
    THEN [info EXCEPT !.isBinary = TRUE, !.content = [tag |-> "docPlaceholder"]]
    ELSE IF ext \in {extPptx, extPpt}
    THEN [info EXCEPT !.isBinary = TRUE,
                      !.content = ProcessOfficeFile(f, filePath, "ppt")]
    ELSE TextInfo(info, FsReadFileUtf8(f, filePath))

\* the filesystem calls of readFileContent after its stat
ContentOps(filePath, ext) ==
    IF ext \in {extPdf, extDoc} THEN <<>> ELSE <<Op("readFile", filePath)>>

\* the result is [threw, val, ops]: the stat before the try block throws to
\* the caller, everything after it is caught
ReadContentOf(f, filePath, ext, stats) ==
    IF IsErr(stats)
    THEN [threw |-> TRUE, val |-> stats.val, ops |-> <<Op("stat", filePath)>>]
    ELSE [threw |-> FALSE,
          val |-> SwitchExt(f, filePath, ext, FileInfo(filePath, ext)),
          ops |-> <<Op("stat", filePath)>> \o ContentOps(filePath, ext)]

ReadFileContent(f, filePath) ==
    ReadContentOf(f, filePath, ToLowerCase(PathExtname(filePath)),
                  FsStat(f, filePath))

(***************************************************************************)
(* GET /api/file/:filePath and GET /api/download/:filePath                 *)
(* (file_explorer_app.js)                                                  *)
(***************************************************************************)
\* res.json(fileInfo), or the 500 of the catch when readFileContent threw
ContentReply(accessOp, got) ==
    IF got.threw
    THEN Reply(500, <<accessOp>> \o got.ops, ErrBody(got.val))
    ELSE Reply(200, <<accessOp>> \o got.ops, got.val)

\* the handler from the existence check on
ReadFile(f, fullPath) ==
    IF ~FsAccess(f, fullPath)
    THEN Reply(404, <<Op("access", fullPath)>>, ErrBody("File not found"))
    ELSE ContentReply(Op("access", fullPath), ReadFileContent(f, fullPath))

FileHandler(root, f, p) ==
    IF root = Null THEN Reply(400, <<>>, ErrBody("Root folder not configured"))
    ELSE IF AccessDenied(root, p) THEN Reply(403, <<>>, ErrBody("Access denied"))
    ELSE ReadFile(f, FullPath(root, p))

\* res.sendFile: a relative path is a TypeError, thrown to the handler's
\* catch; a directory is passed on (next()) and ends as express's 404
SendFile(f, fullPath) ==
    IF ~IsAbsolute(fullPath)
    THEN Reply(500, <<Op("access", fullPath)>>, ErrBody("TypeError"))
    ELSE IF FsStat(f, fullPath) = Ok("file")
    THEN Reply(200, <<Op("access", fullPath), Op("send", fullPath)>>,
               [sent |-> FsReadFile(f, fullPath).val,
                attachment |-> PathBasename(fullPath)])
    ELSE Reply(404, <<Op("access", fullPath), Op("send", fullPath)>>,
               ErrBody("Not Found"))

\* a download handler that checks the existence of the file before the guard
DownloadGuardLast(root, f, p) ==
    IF root = Null THEN Reply(400, <<>>, ErrBody("Root folder not configured"))
    ELSE IF ~FsAccess(f, FullPath(root, p))
    THEN Reply(404, <<Op("access", FullPath(root, p))>>, ErrBody("File not found"))
    ELSE IF AccessDenied(root, p)
    THEN Reply(403, <<Op("access", FullPath(root, p))>>, ErrBody("Access denied"))
    ELSE SendFile(f, FullPath(root, p))

DownloadHandler(root, f, p) ==
    IF root = Null THEN Reply(400, <<>>, ErrBody("Root folder not configured"))
    ELSE IF AccessDenied(root, p) THEN Reply(403, <<>>, ErrBody("Access denied"))
    ELSE IF ~FsAccess(f, FullPath(root, p))
    THEN Reply(404, <<Op("access", FullPath(root, p))>>, ErrBody("File not found"))
    ELSE SendFile(f, FullPath(root, p))

(***************************************************************************)
(* readFileContent and GET /api/file/:filePath of the server with optional *)
(* extractors (enhanced_server.js, src/unnamed/part_000 from line 216).    *)
(* Its other routes are those of file_explorer_app.js.                      *)
(***************************************************************************)
\* processPdfFile, processDocxFile, processExcelFile with the library
\* present: the text the library extracts from the bytes; a failed read,
\* or a library that throws, becomes an error text
ExtractedText(what, buffer, throws) ==
    IF IsErr(buffer) THEN [tag |-> "errorText", what |-> what, of |-> buffer.val]
    ELSE IF throws THEN [tag |-> "errorText", what |-> what, of |-> "library"]
    ELSE [tag |-> "extracted", what |-> what, of |-> buffer.val]

\* the fixed text of a branch whose library is missing
Unavailable(what) == [tag |-> "unavailable", what |-> what]

\* the content of the office and PDF branches of the switch
EnhancedOfficeContent(f, filePath, ext, installed, failing) ==
    IF ext = extPdf
    THEN (IF "pdf-parse" \in installed
          THEN ExtractedText("pdf", FsReadFile(f, filePath), "pdf-parse" \in failing)
          ELSE Unavailable("pdf"))
    ELSE IF ext \in {extXlsx, extXls}
    THEN (IF "xlsx" \in installed
          THEN ExtractedText("excel", FsReadFile(f, filePath), "xlsx" \in failing)
          ELSE Unavailable("excel"))
    ELSE IF ext = extDocx
    THEN (IF "mammoth" \in installed
          THEN ExtractedText("word", FsReadFile(f, filePath), "mammoth" \in failing)
          ELSE Unavailable("word"))
    ELSE IF ext = extDoc THEN [tag |-> "docPlaceholder"]
    ELSE ProcessOfficeFile(f, filePath, "ppt")

\* the switch on the extension
EnhancedSwitchExt(f, filePath, ext, info, installed, failing) ==
    IF ext \in {extPdf, extXlsx, extXls, extDocx, extDoc, extPptx, extPpt}
    THEN [info EXCEPT !.isBinary = TRUE, !.downloadable = TRUE,
                      !.content = EnhancedOfficeContent(f, filePath, ext, installed,
                                                        failing)]
    ELSE TextInfo(info, FsReadFileUtf8(f, filePath))

\* the filesystem calls of readFileContent after its stat
EnhancedContentOps(filePath, ext, installed) ==
    IF \/ ext = extDoc
       \/ ext = extPdf /\ "pdf-parse" \notin installed
       \/ ext \in {extXlsx, extXls} /\ "xlsx" \notin installed
       \/ ext = extDocx /\ "mammoth" \notin installed
    THEN <<>>
    ELSE IF ext \in {extPptx, extPpt}
    THEN <<Op("readFile", filePath), Op("stat", filePath)>>
    ELSE <<Op("readFile", filePath)>>

\* the stat before the try block throws to the caller, everything after it
\* is caught
EnhancedReadContentOf(f, filePath, ext, stats, installed, failing) ==
    IF IsErr(stats)
    THEN [threw |-> TRUE, val |-> stats.val, ops |-> <<Op("stat", filePath)>>]
    ELSE [threw |-> FALSE,
          val |-> EnhancedSwitchExt(f, filePath, ext, FileInfo(filePath, ext),
                                    installed, failing),
          ops |-> <<Op("stat", filePath)>>
                  \o EnhancedContentOps(filePath, ext, installed)]

EnhancedReadFileContent(f, filePath, installed, failing) ==
    EnhancedReadContentOf(f, filePath, ToLowerCase(PathExtname(filePath)),
                          FsStat(f, filePath), installed, failing)

\* the handler from the existence check on
EnhancedReadFile(f, fullPath, installed, failing) ==
    IF ~FsAccess(f, fullPath)
    THEN Reply(404, <<Op("access", fullPath)>>, ErrBody("File not found"))
    ELSE ContentReply(Op("access", fullPath),
                      EnhancedReadFileContent(f, fullPath, installed, failing))

EnhancedFileHandler(root, f, p, installed, failing) ==
    IF root = Null THEN Reply(400, <<>>, ErrBody("Root folder not configured"))
    ELSE IF AccessDenied(root, p) THEN Reply(403, <<>>, ErrBody("Access denied"))
    ELSE EnhancedReadFile(f, FullPath(root, p), installed, failing)

(***************************************************************************)
(* POST /api/set-root and GET /api/root-info                               *)
(***************************************************************************)
\* a request body whose folderPath is not a string
NotAString == <<"notAString">>

\* a set-root handler that assigns ROOT_FOLDER before it validates the path
SetRootAssignFirst(root, folderPath, stats) ==
    IF IsErr(stats)
    THEN [reply |-> Reply(400, <<Op("stat", folderPath)>>, ErrBody(stats.val)),
          root |-> PathResolve(folderPath)]
    ELSE IF stats.val # "dir"
    THEN [reply |-> Reply(400, <<Op("stat", folderPath)>>,
                          ErrBody("Path is not a directory")),
          root |-> PathResolve(folderPath)]
    ELSE [reply |-> Reply(200, <<Op("stat", folderPath)>>,
                          [success |-> TRUE,
                           rootPath |-> PathResolve(folderPath),
                           folderName |-> PathBasename(PathResolve(folderPath))]),
          root |-> PathResolve(folderPath)]

\* the handler from the stat on, given what fs.stat returned
SetRootOf(root, folderPath, stats) ==
    IF IsErr(stats)
    THEN [reply |-> Reply(400, <<Op("stat", folderPath)>>, ErrBody(stats.val)),
          root |-> root]
    ELSE IF stats.val # "dir"
    THEN [reply |-> Reply(400, <<Op("stat", folderPath)>>,
                          ErrBody("Path is not a directory")),
          root |-> root]
    ELSE [reply |-> Reply(200, <<Op("stat", folderPath)>>,
                          [success |-> TRUE,
                           rootPath |-> PathResolve(folderPath),
                           folderName |-> PathBasename(PathResolve(folderPath))]),
          root |-> PathResolve(folderPath)]

\* the outcome of the handler: the reply and the value of ROOT_FOLDER after it
SetRootHandler(root, f, folderPath) ==
    IF folderPath = Null \/ folderPath = <<>>
    THEN [reply |-> Reply(400, <<>>, ErrBody("Folder path is required")),
          root |-> root]
    ELSE IF folderPath = NotAString
    THEN [reply |-> Reply(400, <<>>, ErrBody("TypeError")), root |-> root]
    ELSE SetRootOf(root, folderPath, FsStat(f, folderPath))

\* the handler of the second registration of GET /api/root-info, which has
\* no branch for a missing root: path.basename(null) throws
RootInfoSecond(root) ==
    IF root = Null
    THEN Reply(500, <<>>, ErrBody("TypeError"))
    ELSE Reply(200, <<>>, [configured |-> TRUE, rootPath |-> root,
                           folderName |-> PathBasename(root)])

\* the first registration of the route answers every request; the second
\* one (file_explorer_app.js:355) is never reached
RootInfoHandler(root) ==
    IF root = Null
    THEN Reply(200, <<>>, [configured |-> FALSE, rootPath |-> Null,
                           folderName |-> Null])
    ELSE Reply(200, <<>>, [configured |-> TRUE, rootPath |-> root,
                           folderName |-> PathBasename(root)])

(***************************************************************************)
(* GET /api/file/:filePath of the server without readFileContent           *)
(* (src/unnamed/part_001, and f1.js without the guard)                     *)
(***************************************************************************)
\* fs.readFile then fs.stat; either failure is the 500 of the catch
PlainReply(fullPath, content) ==
    IF IsErr(content)
    THEN Reply(500, <<Op("readFile", fullPath)>>, ErrBody(content.val))
    ELSE Reply(200, <<Op("readFile", fullPath), Op("stat", fullPath)>>,
               [content |-> [tag |-> "utf8", of |-> content.val],
                size |-> <<"sizeOf", fullPath>>])

ReadPlain(f, fullPath) == PlainReply(fullPath, FsReadFileUtf8(f, fullPath))

BasicFileHandler(root, f, p) ==
    IF root = Null THEN Reply(400, <<>>, ErrBody("Root folder not configured"))
    ELSE IF AccessDenied(root, p) THEN Reply(403, <<>>, ErrBody("Access denied"))
    ELSE ReadPlain(f, FullPath(root, p))

(***************************************************************************)
(* The server of src/unnamed/part_000 (lines 1-215): /api/structure with   *)
(* the recursive listing of folders and supported files, /api/file and     *)
(* /api/download.                                                          *)
(***************************************************************************)
extTxt == <<".", "t", "x", "t">>
extCsv == <<".", "c", "s", "v">>
extJpg == <<".", "j", "p", "g">>
extPng == <<".", "p", "n", "g">>

supportedTypes == {extXls, extXlsx, extDoc, extDocx, extCsv, extTxt, extPdf,
                   extJpg, extPng}

\* structure.folders.push({ name, path, ...subStructure })
PushFolderAll(item, itemPath, sub, rest) ==
    [val |-> [folders |-> <<[name |-> item.name, path |-> itemPath,
                             folders |-> sub.val.folders,
                             files |-> sub.val.files]>> \o rest.val.folders,
              files |-> rest.val.files],
     ops |-> sub.ops \o rest.ops]

\* a push of every file, whatever its type
PushFileAny(item, itemPath, ext, rest) ==
    [rest EXCEPT !.val.files =
        <<[name |-> item.name, path |-> itemPath, type |-> Slice1(ext)]>>
        \o rest.val.files]

\* structure.files.push({ name, path, type }) when the type is supported
PushFileAll(item, itemPath, ext, rest) ==
    IF ext \in supportedTypes
    THEN [rest EXCEPT !.val.files =
              <<[name |-> item.name, path |-> itemPath, type |-> Slice1(ext)]>>
              \o rest.val.files]
    ELSE rest

RECURSIVE GetFolderStructureAll(_, _, _)
RECURSIVE GfsAllItems(_, _, _, _)
GfsAllItems(f, dirPath, relativePath, items) ==
    IF items = <<>>
    THEN [val |-> [folders |-> <<>>, files |-> <<>>], ops |-> <<>>]
    ELSE IF Head(items).kind = "dir"
    THEN PushFolderAll(Head(items), PathJoin(<<relativePath, Head(items).name>>),
                       GetFolderStructureAll(
                           f, PathJoin(<<dirPath, Head(items).name>>),
                           PathJoin(<<relativePath, Head(items).name>>)),
                       GfsAllItems(f, dirPath, relativePath, Tail(items)))
    ELSE PushFileAll(Head(items), PathJoin(<<relativePath, Head(items).name>>),
                     ToLowerCase(PathExtname(Head(items).name)),
                     GfsAllItems(f, dirPath, relativePath, Tail(items)))

\* the body of the try block, given what readdir returned; the catch leaves
\* the structure empty
GfsAllOf(f, dirPath, relativePath, items) ==
    IF IsErr(items)
    THEN [val |-> [folders |-> <<>>, files |-> <<>>], ops |-> <<>>]
    ELSE GfsAllItems(f, dirPath, relativePath, items.val)

GetFolderStructureAll(f, dirPath, relativePath) ==
    After(Op("readdir", dirPath),
          GfsAllOf(f, dirPath, relativePath, FsReaddir(f, dirPath)))

\* res.json(structure)
StructureReply(got) == Reply(200, got.ops, got.val)

\* GET /api/structure
StructureHandler(root, f) ==
    IF root = Null THEN Reply(400, <<>>, ErrBody("Root folder not configured"))
    ELSE StructureReply(GetFolderStructureAll(f, root, <<>>))

\* the fileInfo object before the type is looked at
SimpleInfo(fullPath, ext) ==
    [name |-> PathBasename(fullPath), size |-> <<"sizeOf", fullPath>>,
     type |-> Slice1(ext), content |-> [tag |-> "empty"],
     isText |-> FALSE, isImage |-> FALSE, downloadable |-> TRUE]

\* a text file, given what fs.readFile returned
SimpleText(ops, info, data) ==
    IF IsErr(data) THEN Reply(500, ops, ErrBody(data.val))
    ELSE Reply(200, ops, [info EXCEPT !.isText = TRUE,
                                      !.content = [tag |-> "utf8", of |-> data.val]])

\* an image, given what fs.readFile returned
SimpleImage(ops, info, ext, data) ==
    IF IsErr(data) THEN Reply(500, ops, ErrBody(data.val))
    ELSE Reply(200, ops,
               [info EXCEPT !.isImage = TRUE,
                            !.content = [tag |-> "dataUri",
                                         mime |-> IF ext = extJpg THEN "image/jpeg"
                                                  ELSE "image/png",
                                         of |-> Base64Encode(data.val)]])

\* the branches on the extension
SimpleByType(f, fullPath, ext, info) ==
    IF ext \in {extTxt, extCsv}
    THEN SimpleText(<<Op("stat", fullPath), Op("readFile", fullPath)>>, info,
                    FsReadFileUtf8(f, fullPath))
    ELSE IF ext \in {extJpg, extPng}
    THEN SimpleImage(<<Op("stat", fullPath), Op("readFile", fullPath)>>, info, ext,
                     FsReadFile(f, fullPath))
    ELSE Reply(200, <<Op("stat", fullPath)>>,
               [info EXCEPT !.content = [tag |-> "fileInfoText", of |-> info.name]])

\* GET /api/file/:filePath from the stat on
SimpleOf(f, fullPath, ext, stats) ==
    IF IsErr(stats) THEN Reply(500, <<Op("stat", fullPath)>>, ErrBody(stats.val))
    ELSE SimpleByType(f, fullPath, ext, SimpleInfo(fullPath, ext))

ReadSimple(f, fullPath) ==
    SimpleOf(f, fullPath, ToLowerCase(PathExtname(fullPath)), FsStat(f, fullPath))

SimpleFileHandler(root, f, p) ==
    IF root = Null THEN Reply(400, <<>>, ErrBody("Root folder not configured"))
    ELSE IF AccessDenied(root, p) THEN Reply(403, <<>>, ErrBody("Access denied"))
    ELSE ReadSimple(f, FullPath(root, p))

\* res.download: the path is resolved and sent; a missing entry or a
\* directory ends as express's 404
ResDownload(f, fullPath) ==
    IF FsStat(f, fullPath) = Ok("file")
    THEN Reply(200, <<Op("send", fullPath)>>,
               [sent |-> FsReadFile(f, fullPath).val,
                attachment |-> PathBasename(fullPath)])
    ELSE Reply(404, <<Op("send", fullPath)>>, ErrBody("Not Found"))

SimpleDownloadHandler(root, f, p) ==
    IF root = Null THEN Reply(400, <<>>, ErrBody("Root folder not configured"))
    ELSE IF AccessDenied(root, p) THEN Reply(403, <<>>, ErrBody("Access denied"))
    ELSE ResDownload(f, FullPath(root, p))

(***************************************************************************)
(* f1.js: the server of the fixed folder `sun` next to the script.         *)
(***************************************************************************)
\* path.join(__dirname, 'sun')
SunPath == PathJoin(<<Cwd, nSUN>>)

\* const fullPath = path.join(__dirname, 'sun', folderPath)
SunFullPath(p) == PathJoin(<<Cwd, nSUN, p>>)

F1FoldersHandler(f, p) == ListFolder(f, SunFullPath(p), p)

F1FileHandler(f, p) == ReadPlain(f, SunFullPath(p))

F1HomeStructureHandler(f) == TreeReply(GetFolderStructure(f, SunPath))

(***************************************************************************)
(* folder_structure_app.js: getFolderStructure with a depth cap, the       *)
(* exclusions and the sort, and its two routes.                            *)
(***************************************************************************)
\* maxDepth = 3
DefaultMaxDepth == 3

nDist == <<"d", "i", "s", "t">>
nBuild == <<"b", "u", "i", "l", "d">>

\* item.startsWith('.') || ['node_modules', '.git', 'dist', 'build'].includes(item)
Skipped(item) ==
    StartsWith(item, DOT) \/ item \in {nNodeModules, nGit, nDist, nBuild}

\* the place of a character in the collation order of localeCompare:
\* letters in alphabetical order, a lower-case letter before its capital
CharRank(c) ==
    IF IndexIn(LowerAlpha, c) # 0 THEN 2 * IndexIn(LowerAlpha, c)
    ELSE IF IndexIn(UpperAlpha, c) # 0 THEN 2 * IndexIn(UpperAlpha, c) + 1
    ELSE 0

\* a.localeCompare(b) < 0
RECURSIVE LocaleLess(_, _)
LocaleLess(a, b) ==
    IF b = <<>> THEN FALSE
    ELSE IF a = <<>> THEN TRUE
    ELSE IF CharRank(Head(a)) # CharRank(Head(b))
         THEN CharRank(Head(a)) < CharRank(Head(b))
         ELSE LocaleLess(Tail(a), Tail(b))

\* the comparator of the sort: folders first, then files, by name in each
NodeBefore(a, b) ==
    IF a.type # b.type THEN a.type = "folder" ELSE LocaleLess(a.name, b.name)

\* Array.prototype.sort with that comparator (a stable sort)
RECURSIVE InsertNode(_, _)
InsertNode(sorted, n) ==
    IF sorted = <<>> THEN <<n>>
    ELSE IF NodeBefore(n, Head(sorted)) THEN <<n>> \o sorted
    ELSE <<Head(sorted)>> \o InsertNode(Tail(sorted), n)

RECURSIVE SortNodes(_)
SortNodes(nodes) ==
    IF nodes = <<>> THEN <<>>
    ELSE InsertNode(SortNodes(Front(nodes)), Last(nodes))

\* fs.readdir without file types: the names, or an errno
RECURSIVE NamesOf(_)
NamesOf(items) ==
    IF items = <<>> THEN <<>> ELSE <<Head(items).name>> \o NamesOf(Tail(items))

NamesIn(items) == IF IsErr(items) THEN items ELSE Ok(NamesOf(items.val))

FsReaddirNames(f, path) == NamesIn(FsReaddir(f, path))

\* structure.push({ name, type: 'folder', path, children: children || [] })
PushFolderNode(item, itemPath, sub, rest) ==
    [failed |-> rest.failed,
     val |-> <<[name |-> item, type |-> "folder", path |-> itemPath,
                children |-> IF sub.isNull THEN <<>> ELSE sub.val]>> \o rest.val,
     ops |-> <<Op("stat", itemPath)>> \o sub.ops \o rest.ops]

\* structure.push({ name, type: 'file', path, size })
PushFileNode(item, itemPath, rest) ==
    [failed |-> rest.failed,
     val |-> <<[name |-> item, type |-> "file", path |-> itemPath,
                size |-> <<"sizeOf", itemPath>>]>> \o rest.val,
     ops |-> <<Op("stat", itemPath)>> \o rest.ops]

\* val is the list of nodes in directory order; failed when a stat threw,
\* which ends the loop
RECURSIVE GetFolderStructureCapped(_, _, _, _)
RECURSIVE GfsCappedItems(_, _, _, _, _)
RECURSIVE GfsCappedItem(_, _, _, _, _, _, _)
GfsCappedItem(f, dirPath, maxDepth, currentDepth, items, itemPath, stat) ==
    IF IsErr(stat)
    THEN [failed |-> TRUE, val |-> <<>>, ops |-> <<Op("stat", itemPath)>>]
    ELSE IF stat.val = "dir"
    THEN PushFolderNode(Head(items), itemPath,
                        GetFolderStructureCapped(f, itemPath, maxDepth,
                                                 currentDepth + 1),
                        GfsCappedItems(f, dirPath, maxDepth, currentDepth,
                                       Tail(items)))
    ELSE PushFileNode(Head(items), itemPath,
                      GfsCappedItems(f, dirPath, maxDepth, currentDepth,
                                     Tail(items)))

GfsCappedItems(f, dirPath, maxDepth, currentDepth, items) ==
    IF items = <<>> THEN [failed |-> FALSE, val |-> <<>>, ops |-> <<>>]
    ELSE IF Skipped(Head(items))
    THEN GfsCappedItems(f, dirPath, maxDepth, currentDepth, Tail(items))
    ELSE GfsCappedItem(f, dirPath, maxDepth, currentDepth, items,
                       PathJoin(<<dirPath, Head(items)>>),
                       FsStat(f, PathJoin(<<dirPath, Head(items)>>)))

\* return structure.sort(...), or the null of the catch
SortedOrNull(readOp, got) ==
    IF got.failed
    THEN [isNull |-> TRUE, val |-> <<>>, ops |-> <<readOp>> \o got.ops]
    ELSE [isNull |-> FALSE, val |-> SortNodes(got.val),
          ops |-> <<readOp>> \o got.ops]

\* the body of the try block, given what readdir returned
GfsCappedOf(f, dirPath, maxDepth, currentDepth, items) ==
    IF IsErr(items)
    THEN [isNull |-> TRUE, val |-> <<>>, ops |-> <<Op("readdir", dirPath)>>]
    ELSE SortedOrNull(Op("readdir", dirPath),
                      GfsCappedItems(f, dirPath, maxDepth, currentDepth, items.val))

\* val is the sorted list of nodes; isNull when the function returns null (the
\* cap, or a failed readdir or stat, which the catch turns into null for the
\* whole directory)
GetFolderStructureCapped(f, dirPath, maxDepth, currentDepth) ==
    IF currentDepth >= maxDepth THEN [isNull |-> TRUE, val |-> <<>>, ops |-> <<>>]
    ELSE GfsCappedOf(f, dirPath, maxDepth, currentDepth,
                     FsReaddirNames(f, dirPath))

\* res.render('index', { structure, currentPath: rootPath })
IndexReply(rootPath, got) ==
    Reply(200, got.ops, [isNull |-> got.isNull, structure |-> got.val,
                         currentPath |-> rootPath])

\* const rootPath = req.query.path || process.cwd()
QueryOrCwd(q) == IF q = Null \/ q = <<>> THEN Cwd ELSE q

\* GET /
IndexHandler(f, q) ==
    IndexReply(QueryOrCwd(q),
               GetFolderStructureCapped(f, QueryOrCwd(q), DefaultMaxDepth, 0))

\* res.json({ structure, path: folderPath })
FolderReply(q, got) ==
    Reply(200, got.ops, [isNull |-> got.isNull, structure |-> got.val,
                         path |-> q])

\* GET /api/folder
ApiFolderHandler(f, q) ==
    IF q = Null \/ q = <<>>
    THEN Reply(400, <<>>, ErrBody("Path parameter required"))
    ELSE FolderReply(q, GetFolderStructureCapped(f, q, DefaultMaxDepth, 0))

(***************************************************************************)
(* The state of a server process and the requests made to it.              *)
(***************************************************************************)
\* the servers of the repository: file_explorer_app.js ("explorer"),
\* src/unnamed/part_001 ("basic"), src/unnamed/part_000 lines 1-215
\* ("simple"), f1.js ("f1") and folder_structure_app.js ("capped")
Variants == {"explorer", "basic", "simple", "f1", "capped"}

\* process.env.ROOT_FOLDER || process.argv[2] || null
EnvRoots == {Null, <<SLASH, "r">>, nSUN, <<SLASH, "n", "x">>}

\* the folderPath of the body of POST /api/set-root
SetRootInputs ==
    {Null, <<>>, NotAString,
     <<SLASH, "r">>, <<SLASH, "r", SLASH>>, <<SLASH, "r", SLASH, "a">>, <<"a">>,
     <<SLASH, "r", SLASH, "a", SLASH, ".", ".">>, <<SLASH, "r", "e">>,
     <<SLASH, "r", SLASH, "f">>, <<SLASH, "n", "x">>, <<SLASH>>}

\* the segments of the relative paths callers send
ReqSegs == {DOTDOT, nRE, nA, nF}

RECURSIVE SegLists(_)
SegLists(n) ==
    IF n = 0 THEN {<<>>}
    ELSE SegLists(n - 1) \cup
         { Append(l, x) : l \in { m \in SegLists(n - 1) : Len(m) = n - 1 },
                          x \in ReqSegs }

RelPaths == { JoinSegs(l) : l \in SegLists(MaxSegs) }

\* the ?path= of the routes of folder_structure_app.js
QueryPaths == {Null, <<SLASH, "r">>, <<SLASH, "r", "e">>, <<SLASH>>, <<"a">>,
               <<SLASH, "n", "x">>}

VARIABLES
    variant,        \* which server this process runs
    fs,             \* the filesystem the process runs on
    envRoot,        \* the root the environment or the command line supplies
    libs,           \* the optional libraries require() finds: pdf-parse, xlsx, mammoth
    rejects,        \* those of them that throw on the files stored here
    inflight,       \* the requests whose handlers are between two awaits
    walk,           \* the calls of getFolderStructure that have not returned
    proc,           \* "starting", "running" or "crashed"
    ROOT_FOLDER,    \* the root configuration, Null while unconfigured
    sampleMade,     \* createSampleStructure has written its sample tree
    resp,           \* the exchange just answered, until the client takes it
    lastSet         \* the folderPath of the last successful set-root, or Null

vars == <<variant, fs, envRoot, libs, rejects, inflight, walk, proc, ROOT_FOLDER, sampleMade, resp, lastSet>>

Idle == [ep |-> "none", p |-> <<>>, root |-> Null, status |-> 0, ops |-> <<>>,
         body |-> [none |-> TRUE]]

Exchange(ep, p, root, reply) ==
    [ep |-> ep, p |-> p, root |-> root, status |-> reply.status,
     ops |-> reply.ops, body |-> reply.body]

HasRootConfig(v) == v \in {"explorer", "basic", "simple"}

Init ==
    /\ variant \in Variants
    /\ fs \in FileSystems
    /\ proc = "starting"
    /\ envRoot \in (IF HasRootConfig(variant) THEN EnvRoots ELSE {Null})
    /\ libs = {}
    /\ rejects = {}
    /\ inflight = <<>>
    /\ walk = <<>>
    /\ ROOT_FOLDER = envRoot
    /\ sampleMade = FALSE
    /\ resp = Idle
    /\ lastSet = Null

(***************************************************************************)
(* Startup: what runs after the routes are registered.                     *)
(***************************************************************************)
\* what an unhandled promise rejection does to the process: node 15 and
\* later end it, earlier versions only warn
UnhandledRejectionOutcomes == {"crashed", "running"}

\* createSampleStructure() of file_explorer_app.js and part_001: with no root
\* ROOT_FOLDER.endsWith is a TypeError outside the try block, which rejects
\* the promise nobody handles
CreateSampleStructure ==
    /\ proc = "starting"
    /\ variant \in {"explorer", "basic"}
    /\ IF ROOT_FOLDER = Null
       THEN /\ proc' \in UnhandledRejectionOutcomes
            /\ UNCHANGED sampleMade
       ELSE /\ proc' = "running"
            /\ sampleMade' = EndsWith(ROOT_FOLDER, nSUN)
    /\ UNCHANGED <<variant, fs, envRoot, libs, rejects, inflight, walk, ROOT_FOLDER, resp, lastSet>>

\* createSampleStructure() of f1.js: always under __dirname/sun, in a try
F1CreateSampleStructure ==
    /\ proc = "starting"
    /\ variant = "f1"
    /\ proc' = "running"
    /\ sampleMade' = TRUE
    /\ UNCHANGED <<variant, fs, envRoot, libs, rejects, inflight, walk, ROOT_FOLDER, resp, lastSet>>

\* the other servers only listen
Listen ==
    /\ proc = "starting"
    /\ variant \in {"simple", "capped"}
    /\ proc' = "running"
    /\ UNCHANGED <<variant, fs, envRoot, libs, rejects, inflight, walk, ROOT_FOLDER, sampleMade, resp, lastSet>>

(***************************************************************************)
(* Requests.  A request is taken when the process runs and the previous    *)
(* exchange has been delivered.                                            *)
(***************************************************************************)
Ready(vs) == proc = "running" /\ resp = Idle /\ variant \in vs

\* an answer that also drops the root configuration
AnswerAndForget(ep, p, reply) ==
    /\ resp' = Exchange(ep, p, ROOT_FOLDER, reply)
    /\ ROOT_FOLDER' = Null
    /\ UNCHANGED <<variant, fs, envRoot, libs, rejects, inflight, walk, proc, sampleMade, lastSet>>

Answer(ep, p, reply) ==
    /\ resp' = Exchange(ep, p, ROOT_FOLDER, reply)
    /\ UNCHANGED <<variant, fs, envRoot, libs, rejects, inflight, walk, proc, ROOT_FOLDER, sampleMade, lastSet>>

\* POST /api/set-root: the handler assigns ROOT_FOLDER when it succeeds
SetRootDone(folderPath, out) ==
    /\ ROOT_FOLDER' = out.root
    /\ resp' = Exchange("set-root", folderPath, ROOT_FOLDER, out.reply)
    /\ lastSet' = IF out.reply.status = 200 THEN folderPath ELSE lastSet

SetRoot(folderPath) ==
    /\ Ready({"explorer", "basic", "simple"})
    /\ SetRootDone(folderPath, SetRootHandler(ROOT_FOLDER, fs, folderPath))
    /\ UNCHANGED <<variant, fs, envRoot, libs, rejects, inflight, walk, proc, sampleMade>>

RootInfo ==
    /\ Ready({"explorer", "basic", "simple"})
    /\ Answer("root-info", <<>>, RootInfoHandler(ROOT_FOLDER))

Folders(p) ==
    /\ Ready({"explorer", "basic"})
    /\ Answer("folders", p, FoldersHandler(ROOT_FOLDER, fs, p))

HomeStructure ==
    /\ Ready({"explorer", "basic"})
    /\ Answer("home-structure", <<>>, HomeStructureHandler(ROOT_FOLDER, fs))

GetFile(p) ==
    /\ Ready({"explorer"})
    /\ Answer("file", p, FileHandler(ROOT_FOLDER, fs, p))

Download(p) ==
    /\ Ready({"explorer"})
    /\ Answer("download", p, DownloadHandler(ROOT_FOLDER, fs, p))

BasicGetFile(p) ==
    /\ Ready({"basic"})
    /\ Answer("file", p, BasicFileHandler(ROOT_FOLDER, fs, p))

Structure ==
    /\ Ready({"simple"})
    /\ Answer("structure", <<>>, StructureHandler(ROOT_FOLDER, fs))

SimpleGetFile(p) ==
    /\ Ready({"simple"})
    /\ Answer("file", p, SimpleFileHandler(ROOT_FOLDER, fs, p))

SimpleDownload(p) ==
    /\ Ready({"simple"})
    /\ Answer("download", p, SimpleDownloadHandler(ROOT_FOLDER, fs, p))

F1Folders(p) ==
    /\ Ready({"f1"})
    /\ Answer("folders", p, F1FoldersHandler(fs, p))

F1GetFile(p) ==
    /\ Ready({"f1"})
    /\ Answer("file", p, F1FileHandler(fs, p))

F1HomeStructure ==
    /\ Ready({"f1"})
    /\ Answer("home-structure", <<>>, F1HomeStructureHandler(fs))

Index(q) ==
    /\ Ready({"capped"})
    /\ Answer("index", q, IndexHandler(fs, q))

ApiFolder(q) ==
    /\ Ready({"capped"})
    /\ Answer("folder", q, ApiFolderHandler(fs, q))

\* getFolderStructure of folder_structure_app.js called with a depth cap of
\* the caller's choice
CallCapped(got, maxDepth) ==
    Reply(0, got.ops, [isNull |-> got.isNull, structure |-> got.val,
                       maxDepth |-> maxDepth])

CallGetFolderStructure(q, maxDepth) ==
    /\ Ready({"capped"})
    /\ Answer("getFolderStructure", q,
              CallCapped(GetFolderStructureCapped(fs, q, maxDepth, 0), maxDepth))

\* the client receives the response
Deliver ==
    /\ resp # Idle
    /\ resp' = Idle
    /\ UNCHANGED <<variant, fs, envRoot, libs, rejects, inflight, walk, proc, ROOT_FOLDER, sampleMade, lastSet>>

Next ==
    \/ CreateSampleStructure
    \/ F1CreateSampleStructure
    \/ Listen
    \/ \E folderPath \in SetRootInputs : SetRoot(folderPath)
    \/ RootInfo
    \/ \E p \in RelPaths : Folders(p)
    \/ HomeStructure
    \/ \E p \in RelPaths : GetFile(p)
    \/ \E p \in RelPaths : Download(p)
    \/ \E p \in RelPaths : BasicGetFile(p)
    \/ Structure
    \/ \E p \in RelPaths : SimpleGetFile(p)
    \/ \E p \in RelPaths : SimpleDownload(p)
    \/ \E p \in RelPaths : F1Folders(p)
    \/ \E p \in RelPaths : F1GetFile(p)
    \/ F1HomeStructure
    \/ \E q \in QueryPaths : Index(q)
    \/ \E q \in QueryPaths : ApiFolder(q)
    \/ \E q \in QueryPaths \ {Null}, maxDepth \in 0..DefaultMaxDepth :
           CallGetFolderStructure(q, maxDepth)
    \/ Deliver

Spec == Init /\ [][Next]_vars

(***************************************************************************)
(* File contents: the servers that return the content of a file, run on a  *)
(* root holding one file of every kind, for every content of a small set,  *)
(* and one directory with a text file and a directory in it.               *)
(***************************************************************************)
\* getFileType of file_explorer_app.js and its two lists
textFiles == {extTxt, <<".", "m", "d">>, <<".", "j", "s">>,
              <<".", "h", "t", "m", "l">>, <<".", "c", "s", "s">>,
              <<".", "j", "s", "o", "n">>, <<".", "x", "m", "l">>, extCsv,
              <<".", "l", "o", "g">>}

binaryFiles == {extPdf, extXlsx, extXls, extDocx, extDoc, extPptx, extPpt}

GetFileType(filename) ==
    IF ToLowerCase(PathExtname(filename)) \in binaryFiles THEN "binary" ELSE "text"

\* the extensions of the files in the root: the two lists, the images, one
\* extension no server knows, none at all, and two in upper case
ContentExts == textFiles \cup binaryFiles
               \cup {extJpg, extPng, <<".", "z", "z">>, <<>>,
                     <<".", "T", "X", "T">>, <<".", "P", "N", "G">>}

ContentNames == {<<"t">> \o e : e \in ContentExts}

\* the bytes a file may hold: empty, ASCII of one to three bytes, two-byte
\* UTF-8 sequences, and bytes that are no UTF-8
FileContents == {<<>>, <<104>>, <<104, 105>>, <<104, 105, 33>>,
                 <<195, 169, 104, 105>>, <<137, 80, 255, 0>>}

RECURSIVE SeqOfSet(_)
SeqOfSet(S) ==
    IF S = {} THEN <<>>
    ELSE LET x == CHOOSE y \in S : TRUE IN <<x>> \o SeqOfSet(S \ {x})

ContentFS(bytes) ==
    [ents |-> (CanonStr(<<>>) :> <<Dir(nR)>>)
              @@ (CanonStr(<<nR>>) :> Append([i \in 1..Cardinality(ContentNames) |->
                                                File(SeqOfSet(ContentNames)[i])],
                                              Dir(nA)))
              @@ (CanonStr(<<nR, nA>>) :> <<File(<<"t">> \o extTxt), Dir(nB)>>)
              @@ (CanonStr(<<nR, nA, nB>>) :> <<>>),
     noread |-> {},
     data |-> [c \in {CanonStr(<<nR, n>>) : n \in ContentNames} |-> bytes]]

ContentFileSystems == {ContentFS(bytes) : bytes \in FileContents}

\* the relative paths requested: every file of the root, the directory in
\* it, and one that is not there
ContentPaths == ContentNames \cup {nA, <<"n", "x", ".", "t", "x", "t">>}

\* the folders listed: the root, the directory in it, and both by a detour
ContentFolderPaths == {<<>>, nA, JoinSegs(<<nA, DOTDOT>>),
                       JoinSegs(<<DOTDOT, nR, nA>>)}

ContentVariants == {"explorer", "enhanced", "basic", "simple"}

Extractors == {"pdf-parse", "xlsx", "mammoth"}

\* the process is up, its root names the directory of the files
InitContent ==
    /\ variant \in ContentVariants
    /\ fs \in ContentFileSystems
    /\ proc = "running"
    /\ envRoot = <<SLASH, "r">>
    /\ libs \in (IF variant = "enhanced" THEN {{}, Extractors} ELSE {{}})
    /\ rejects \in {{}, libs}
    /\ inflight = <<>>
    /\ walk = <<>>
    /\ ROOT_FOLDER = envRoot
    /\ sampleMade = FALSE
    /\ resp = Idle
    /\ lastSet = Null

EnhancedGetFile(p) ==
    /\ Ready({"enhanced"})
    /\ Answer("file", p, EnhancedFileHandler(ROOT_FOLDER, fs, p, libs, rejects))

\* readFileContent called on its own: what it returns, or what it throws
CallResult(got) ==
    Reply(0, got.ops, [raised |-> got.threw, val |-> got.val])

CallReadFileContent(p) ==
    /\ Ready({"explorer", "enhanced"})
    /\ Answer("readFileContent", p,
              CallResult(IF variant = "enhanced"
                         THEN EnhancedReadFileContent(fs, FullPath(ROOT_FOLDER, p), libs,
                                                      rejects)
                         ELSE ReadFileContent(fs, FullPath(ROOT_FOLDER, p))))

NextContent ==
    \/ \E p \in ContentPaths : GetFile(p)
    \/ \E p \in ContentPaths : EnhancedGetFile(p)
    \/ \E p \in ContentPaths : BasicGetFile(p)
    \/ \E p \in ContentPaths : SimpleGetFile(p)
    \/ \E p \in ContentPaths : CallReadFileContent(p)
    \/ Structure
    \/ \E p \in ContentFolderPaths : Folders(p)
    \/ Deliver

SpecContent == InitContent /\ [][NextContent]_vars

\* the routes with a path guard, by server
HandlerReply(v, ep, root, f, p) ==
    IF v = "explorer"
    THEN (IF ep = "folders" THEN FoldersHandler(root, f, p)
          ELSE IF ep = "file" THEN FileHandler(root, f, p)
          ELSE DownloadHandler(root, f, p))
    ELSE IF v = "basic"
    THEN (IF ep = "folders" THEN FoldersHandler(root, f, p)
          ELSE BasicFileHandler(root, f, p))
    ELSE (IF ep = "file" THEN SimpleFileHandler(root, f, p)
          ELSE SimpleDownloadHandler(root, f, p))

(***************************************************************************)
(* The vocabulary of the specification: canonical paths as lists of        *)
(* segments, containment as a prefix of segments, and the sort policy.     *)
(***************************************************************************)
\* the directory reached from `cur` by following the segments, lexically
RECURSIVE ResolveSegs(_, _)
ResolveSegs(cur, segs) ==
    IF segs = <<>> THEN cur
    ELSE ResolveSegs(IF Head(segs) \in {<<>>, DOT} THEN cur
                     ELSE IF Head(segs) = DOTDOT
                          THEN (IF cur = <<>> THEN cur ELSE Front(cur))
                          ELSE Append(cur, Head(segs)),
                     Tail(segs))

\* the canonical form of a path, as its list of segments
CanonSegs(path) ==
    ResolveSegs(IF IsAbsolute(path) THEN <<>> ELSE ResolveSegs(<<>>, Split(Cwd)),
                Split(path))

\* the canonical form of join(R, p)
Target(R, p) == ResolveSegs(CanonSegs(R), Split(p))

IsPrefixSeq(a, b) == Len(a) <= Len(b) /\ SubSeq(b, 1, Len(a)) = a

\* join(R, p) is R or lies under it
Contained(R, p) == IsPrefixSeq(CanonSegs(R), Target(R, p))

\* join(R, p) is outside R, in an entry whose path has R's path as a string
\* prefix
SiblingCase(R, p) ==
    /\ ~Contained(R, p)
    /\ StartsWith(CanonStr(Target(R, p)), CanonStr(CanonSegs(R)))

LastSegment(segs) == IF segs = <<>> THEN <<>> ELSE Last(segs)

\* lexicographic order of names
RECURSIVE LexLess(_, _)
LexLess(a, b) ==
    IF b = <<>> THEN FALSE
    ELSE IF a = <<>> THEN TRUE
    ELSE IF Head(a) = Head(b) THEN LexLess(Tail(a), Tail(b))
    ELSE IndexIn(LowerAlpha, Head(a)) < IndexIn(LowerAlpha, Head(b))

NamesAscending(items) ==
    \A i, j \in DOMAIN items : i < j => LexLess(items[i].name, items[j].name)

FoldersFirst(nodes) ==
    \A i, j \in DOMAIN nodes :
        i < j => ~(nodes[i].type = "file" /\ nodes[j].type = "folder")

SortedInGroups(nodes) ==
    \A i, j \in DOMAIN nodes :
        (i < j /\ nodes[i].type = nodes[j].type)
            => LexLess(nodes[i].name, nodes[j].name)

\* the two filesystems have the same entries in the root and under it
DiffersOnlyOutside(f1, f2, R) ==
    \A d \in DOMAIN f1.ents :
        IsPrefixSeq(CanonSegs(R), CanonSegs(d))
            => /\ d \in DOMAIN f2.ents
               /\ f1.ents[d] = f2.ents[d]
               /\ (d \in f1.noread) = (d \in f2.noread)

GuardedEndpoints == {"folders", "file", "download"}

\* the exchange just answered went through a path guard with a root R
Guarded ==
    /\ HasRootConfig(variant)
    /\ resp.ep \in GuardedEndpoints
    /\ resp.root # Null

\* the root of the exchange just answered: the configured one, the fixed
\* folder of f1.js, or the working directory of folder_structure_app.js
VariantRoot ==
    IF variant = "f1" THEN SunPath
    ELSE IF variant = "capped" THEN Cwd
    ELSE resp.root

(***************************************************************************)
(* The claims.                                                             *)
(***************************************************************************)
\* C1: for every configured root R and relative path p, the folders, file
\* and download handlers answer 403 when join(R, p) resolves outside R, and
\* otherwise let the request through to join(R, p) in canonical form.
C1_GuardDecides ==
    Guarded =>
        IF ~Contained(resp.root, resp.p)
        THEN resp.status = 403
        ELSE /\ resp.status # 403
             /\ resp.ops # <<>> =>
                    CanonSegs(resp.ops[1].path) = Target(resp.root, resp.p)

\* C2: a request that resolves to a sibling whose path has the root's path as
\* a string prefix is answered 403 and the sibling is never read.
C2_SiblingDenied ==
    (Guarded /\ SiblingCase(resp.root, resp.p))
        => (resp.status = 403 /\ resp.ops = <<>>)

\* C3: in every server, every path handed to a filesystem operation for a
\* request is the root or lies under it, and the first one is the join of the
\* root and the caller's relative path.
C3_OpsUnderRoot ==
    (resp.ep \in {"folders", "file", "download", "structure", "home-structure",
                  "index", "folder"} /\ resp.ops # <<>>)
        => /\ \A i \in DOMAIN resp.ops :
                  IsPrefixSeq(CanonSegs(VariantRoot), CanonSegs(resp.ops[i].path))
           /\ variant # "capped" =>
                  CanonSegs(resp.ops[1].path) = Target(VariantRoot, resp.p)

\* C4: a request the guard rejects with 403 has made no filesystem call, and
\* every filesystem that differs from this one only outside the root yields
\* the same response.
C4_RejectedTouchesNothing ==
    (Guarded /\ resp.status = 403)
        => /\ resp.ops = <<>>
           /\ \A f2 \in FileSystems :
                  DiffersOnlyOutside(fs, f2, resp.root)
                      => HandlerReply(variant, resp.ep, resp.root, f2, resp.p)
                         = Reply(resp.status, resp.ops, resp.body)

\* a rejected request, on a filesystem that has a twin differing only
\* outside the root
C4_Witness ==
    /\ Guarded
    /\ resp.status = 403
    /\ resp.ep = "download"
    /\ \E f2 \in FileSystems : f2 # fs /\ DiffersOnlyOutside(fs, f2, resp.root)

\* C5: every step in which POST /api/set-root is rejected answers 400 and
\* leaves ROOT_FOLDER as it was; ROOT_FOLDER only changes in a step in which
\* set-root answers 200 for a path that is a directory.
C5_RejectedSetRootKeepsRoot ==
    [][ /\ (resp'.ep = "set-root" /\ resp = Idle /\ resp'.status # 200)
            => (resp'.status = 400 /\ ROOT_FOLDER' = ROOT_FOLDER)
        /\ ROOT_FOLDER' # ROOT_FOLDER
            => /\ resp'.ep = "set-root"
               /\ resp'.status = 200
               /\ FsStat(fs, resp'.p) = Ok("dir") ]_vars

\* set-root rejected after its stat, with a root configured before the call
C5_Witness ==
    /\ resp.ep = "set-root"
    /\ resp.status = 400
    /\ resp.ops # <<>>
    /\ resp.root # Null
    /\ ROOT_FOLDER = resp.root

\* C6: while no root is configured, the tree, file and download endpoints
\* answer 400 and make no filesystem call; no root is configured in any
\* state in which none was supplied at startup and no set-root has succeeded.
C6_UnconfiguredRejects ==
    /\ (HasRootConfig(variant) /\ resp.root = Null
        /\ resp.ep \in {"folders", "structure", "home-structure", "file",
                        "download"})
           => (resp.status = 400 /\ resp.ops = <<>>)
    /\ (envRoot = Null /\ lastSet = Null) => ROOT_FOLDER = Null

\* the home-structure endpoint asked before any root is configured
C6_Witness ==
    /\ resp.ep = "home-structure"
    /\ HasRootConfig(variant)
    /\ resp.root = Null
    /\ envRoot = Null
    /\ lastSet = Null
    /\ resp.status = 400

\* C7: a server started with no root supplied keeps running: no startup step
\* ends the process.
C7_StartupNotFatal == envRoot = Null => proc # "crashed"

\* C8: in every state the root is unconfigured, or the absolute canonical
\* path of a directory, whichever way it was supplied.
C8_RootIsCanonicalDir ==
    \/ ROOT_FOLDER = Null
    \/ /\ IsAbsolute(ROOT_FOLDER)
       /\ ROOT_FOLDER = CanonStr(CanonSegs(ROOT_FOLDER))
       /\ KindOf(fs, CanonSegs(ROOT_FOLDER)) = "dir"

\* C9: GET /api/root-info answers 200 in every state; it reports the
\* unconfigured sentinel exactly while no root was supplied at startup and no
\* set-root has succeeded; after a successful set-root(p) it reports the
\* canonical form of p and its last segment; before one, with a root supplied
\* at startup, it reports that root as supplied.
C9_RootInfoReports ==
    resp.ep = "root-info" =>
        /\ resp.status = 200
        /\ resp.body.configured = ~(envRoot = Null /\ lastSet = Null)
        /\ lastSet # Null =>
               /\ resp.body.rootPath = CanonStr(CanonSegs(lastSet))
               /\ resp.body.folderName = LastSegment(CanonSegs(lastSet))
        /\ (lastSet = Null /\ envRoot # Null) => resp.body.rootPath = envRoot

\* root-info asked after a successful set-root of a path that is not in
\* canonical form
C9_Witness ==
    /\ resp.ep = "root-info"
    /\ lastSet # Null
    /\ lastSet # CanonStr(CanonSegs(lastSet))
    /\ resp.body.configured

\* C9 as stated: the sentinel in every state before the first successful
\* set-root
C9_SentinelUntilFirstSet ==
    resp.ep = "root-info" =>
        /\ resp.status = 200
        /\ lastSet = Null => ~resp.body.configured
        /\ lastSet # Null =>
               /\ resp.body.configured
               /\ resp.body.rootPath = CanonStr(CanonSegs(lastSet))
               /\ resp.body.folderName = LastSegment(CanonSegs(lastSet))

\* C10: whatever the order in which readdir returns the entries, a listing
\* has the folders before the files and the names of each group in
\* lexicographic order.
C10_ListingSorted ==
    /\ (resp.ep = "folders" /\ resp.status = 200)
           => /\ NamesAscending(resp.body.folders)
              /\ NamesAscending(resp.body.files)
    /\ (resp.ep \in {"index", "folder"} /\ resp.status = 200)
           => /\ FoldersFirst(resp.body.structure)
              /\ SortedInGroups(resp.body.structure)

(***************************************************************************)
(* Enumeration: unreadable children, excluded names, unreadable top.       *)
(***************************************************************************)
\* the directory a tree or listing request enumerates first
TopDir ==
    IF variant = "capped"
    THEN (IF resp.ep = "index" THEN QueryOrCwd(resp.p) ELSE resp.p)
    ELSE IF resp.ep = "folders" THEN FullPath(resp.root, resp.p)
    ELSE resp.root

\* a response to a request that enumerates a directory the server could read
EnumeratedReadable ==
    /\ resp.status = 200
    /\ \/ variant = "capped" /\ resp.ep \in {"index", "folder"}
       \/ variant \in {"explorer", "basic"} /\ resp.ep \in {"folders", "home-structure"}
       \/ variant = "simple" /\ resp.ep = "structure"
    /\ ~IsErr(FsReaddir(fs, TopDir))

\* the nodes the response gives for the entries of the top directory, each
\* with its name, whether it is a folder node, and its children
TopNodes ==
    IF variant = "capped"
    THEN {[name |-> n.name, folder |-> n.type = "folder",
           empty |-> n.type = "folder" /\ n.children = <<>>] :
              n \in {resp.body.structure[i] : i \in DOMAIN resp.body.structure}}
    ELSE IF resp.ep = "folders"
    THEN {[name |-> n.name, folder |-> TRUE, empty |-> n.subFolders = <<>>] :
              n \in {resp.body.folders[i] : i \in DOMAIN resp.body.folders}}
         \cup {[name |-> n.name, folder |-> FALSE, empty |-> FALSE] :
              n \in {resp.body.files[i] : i \in DOMAIN resp.body.files}}
    ELSE IF resp.ep = "home-structure"
    THEN {[name |-> n.name, folder |-> TRUE, empty |-> n.subFolders = <<>>] :
              n \in {resp.body.structure[i] : i \in DOMAIN resp.body.structure}}
    ELSE {[name |-> n.name, folder |-> TRUE,
           empty |-> n.folders = <<>> /\ n.files = <<>>] :
              n \in {resp.body.folders[i] : i \in DOMAIN resp.body.folders}}
         \cup {[name |-> n.name, folder |-> FALSE, empty |-> FALSE] :
              n \in {resp.body.files[i] : i \in DOMAIN resp.body.files}}

TopEntries == {FsReaddir(fs, TopDir).val[i] : i \in DOMAIN FsReaddir(fs, TopDir).val}

\* the entries the enumeration calls stat or readdir on
Visited(e) ==
    IF variant = "capped" THEN ~Skipped(e.name) ELSE e.kind = "dir"

\* the stat or the readdir the enumeration makes on the entry fails
Unreadable(e) ==
    \/ variant = "capped" /\ IsErr(FsStat(fs, PathJoin(<<TopDir, e.name>>)))
    \/ e.kind = "dir" /\ IsErr(FsReaddir(fs, PathJoin(<<TopDir, e.name>>)))

HasUnreadableChild == \E e \in TopEntries : Visited(e) /\ Unreadable(e)

\* C11: when a child of an enumerated directory cannot be read, the
\* enumeration still succeeds: the child is a folder node with no children
\* and every other entry the enumeration visits is still listed.
C11_UnreadableChildKept ==
    (EnumeratedReadable /\ HasUnreadableChild)
        => /\ variant = "capped" => ~resp.body.isNull
           /\ \A e \in TopEntries :
                  Visited(e) => \E n \in TopNodes :
                                    /\ n.name = e.name
                                    /\ Unreadable(e) => n.folder /\ n.empty

\* the names the specification excludes from every enumeration
Excluded(name) ==
    \/ name # <<>> /\ Head(name) = "."
    \/ name \in {nNodeModules, nDist, nBuild}

\* a response to an enumeration request
Enumerated ==
    /\ resp.status = 200
    /\ \/ variant = "capped" /\ resp.ep \in {"index", "folder"} /\ ~resp.body.isNull
       \/ variant \in {"explorer", "basic"} /\ resp.ep \in {"folders", "home-structure"}
       \/ variant = "simple" /\ resp.ep = "structure"

\* the segments of a path the enumeration touched, below its top directory
Below(path) ==
    SubSeq(CanonSegs(path), Len(CanonSegs(TopDir)) + 1, Len(CanonSegs(path)))

\* C12: no entry whose name begins with "." and none named node_modules,
\* dist or build appears in the result of an enumeration, and the
\* enumeration reads nothing in such a directory.
C12_ExcludedNeverListed ==
    Enumerated
        => /\ \A n \in TopNodes : ~Excluded(n.name)
           /\ \A i \in DOMAIN resp.ops :
                  resp.ops[i].op = "readdir"
                      => \A k \in DOMAIN Below(resp.ops[i].path) :
                             ~Excluded(Below(resp.ops[i].path)[k])

(***************************************************************************)
(* The content of files.                                                   *)
(***************************************************************************)
\* the path a content request or a call of readFileContent is about
ContentTarget == FullPath(resp.root, resp.p)

\* a filesystem call made for the exchange failed
SomeCallFailed ==
    \E i \in DOMAIN resp.ops :
        \/ resp.ops[i].op = "stat" /\ IsErr(FsStat(fs, resp.ops[i].path))
        \/ resp.ops[i].op = "readFile" /\ IsErr(FsReadFile(fs, resp.ops[i].path))

\* C13: readFileContent never raises: a failing stat or a failing read
\* gives a descriptor with the placeholder content and the error field set.
C13_ReadFileContentNeverRaises ==
    resp.ep = "readFileContent"
        => IF resp.body.raised THEN FALSE
           ELSE SomeCallFailed
                    => /\ resp.body.val.error # Null
                       /\ resp.body.val.content.tag = "unableToRead"

\* the extension of the requested file, in lower case
TargetExt == ToLowerCase(PathExtname(resp.p))

\* an exchange of a server built on readFileContent, about a file that is
\* there: GET /api/file, or the function called on its own
OnExistingFile ==
    /\ variant \in {"explorer", "enhanced"}
    /\ resp.ep \in {"file", "readFileContent"}
    /\ KindOf(fs, Target(resp.root, resp.p)) = "file"

\* the request was answered with a descriptor
Described ==
    IF resp.ep = "file" THEN resp.status = 200 ELSE ~resp.body.raised

Descriptor == IF resp.ep = "file" THEN resp.body ELSE resp.body.val

\* the contents that are a text put in place of the file's content
PlaceholderTags == {"pdfPlaceholder", "docPlaceholder", "unavailable", "detectedText"}

\* C14: for a PDF or office file, with no extractor installed, the
\* descriptor has a placeholder content and downloadable = TRUE, and
\* nothing is raised.
C14_OfficePlaceholder ==
    (OnExistingFile /\ libs = {} /\ TargetExt \in binaryFiles)
        => /\ Described
           /\ Descriptor.content.tag \in PlaceholderTags
           /\ Descriptor.downloadable

\* the bytes of the requested file
StoredBytes == FileData(fs, CanonStr(Target(resp.root, resp.p)))

\* the value of a base64 character, 0 for the padding
B64Value(c) == IF c = "=" THEN 0 ELSE IndexIn(Base64Alphabet, c) - 1

\* base64 decoding: four characters give three bytes, fewer when padded
RECURSIVE Base64Decode(_)
Base64Decode(chars) ==
    IF Len(chars) < 4 THEN <<>>
    ELSE SubSeq(<<B64Value(chars[1]) * 4 + (B64Value(chars[2]) \div 16),
                  (B64Value(chars[2]) % 16) * 16 + (B64Value(chars[3]) \div 4),
                  (B64Value(chars[3]) % 4) * 64 + B64Value(chars[4])>>,
                1,
                IF chars[3] = "=" THEN 1 ELSE IF chars[4] = "=" THEN 2 ELSE 3)
         \o Base64Decode(SubSeq(chars, 5, Len(chars)))

\* GET /api/file answered 200 by a server that returns file contents
ContentServed(vs) ==
    /\ variant \in vs
    /\ resp.ep = "file"
    /\ resp.status = 200

\* C15: for .png and .jpg the descriptor has isImage = TRUE and its content
\* is a data URI of the matching media type whose base64 payload decodes to
\* the bytes of the file.
C15_ImageDataUri ==
    (ContentServed({"explorer", "enhanced", "simple"}) /\ TargetExt \in {extPng, extJpg})
        => /\ "isImage" \in DOMAIN resp.body
           /\ resp.body.isImage
           /\ resp.body.content.tag = "dataUri"
           /\ resp.body.content.mime
                  = (IF TargetExt = extPng THEN "image/png" ELSE "image/jpeg")
           /\ Base64Decode(resp.body.content.of) = StoredBytes

\* UTF-8 encoding of a text, given as its code points
RECURSIVE Utf8Encode(_)
Utf8Encode(text) ==
    IF text = <<>> THEN <<>>
    ELSE (IF Head(text) < 128 THEN <<Head(text)>>
          ELSE IF Head(text) < 2048
          THEN <<192 + (Head(text) \div 64), 128 + (Head(text) % 64)>>
          ELSE <<224 + (Head(text) \div 4096), 128 + ((Head(text) \div 64) % 64),
                 128 + (Head(text) % 64)>>)
         \o Utf8Encode(Tail(text))

\* the bytes are well-formed UTF-8 of one- and two-byte sequences
RECURSIVE IsUtf8(_)
IsUtf8(bytes) ==
    IF bytes = <<>> THEN TRUE
    ELSE IF Head(bytes) < 128 THEN IsUtf8(Tail(bytes))
    ELSE /\ Head(bytes) \in 194..223
         /\ Len(bytes) >= 2
         /\ bytes[2] \in 128..191
         /\ IsUtf8(Tail(Tail(bytes)))

\* the descriptor returns the text of the file and says it is text
ReturnsStoredText ==
    /\ "isText" \in DOMAIN resp.body
    /\ resp.body.isText
    /\ resp.body.content.tag = "utf8"
    /\ Utf8Encode(resp.body.content.of) = StoredBytes

\* C16: for every text-like extension and every UTF-8 content, GET /api/file
\* of an existing file returns the stored content with isText = TRUE.
C16_TextRoundTrip ==
    (/\ variant \in {"explorer", "basic", "simple"}
     /\ resp.ep = "file"
     /\ KindOf(fs, Target(resp.root, resp.p)) = "file"
     /\ TargetExt \in textFiles
     /\ IsUtf8(StoredBytes))
        => resp.status = 200 /\ ReturnsStoredText

\* C17: a file whose extension no server knows, or with no extension, takes
\* the text branch: it is read as UTF-8 and returned with isText = TRUE.
C17_UnknownIsText ==
    (/\ variant \in {"explorer", "simple"}
     /\ resp.ep = "file"
     /\ KindOf(fs, Target(resp.root, resp.p)) = "file"
     /\ TargetExt \notin (textFiles \cup binaryFiles \cup {extJpg, extPng}))
        => /\ resp.status = 200
           /\ resp.body.isText
           /\ resp.body.content.tag = "utf8"
           /\ resp.body.content.of = Utf8Decode(StoredBytes)

(***************************************************************************)
(* Missing files, unreadable directories, the root itself.                 *)
(***************************************************************************)
\* a file or download request for a path inside the root that names nothing
MissingInsideRoot ==
    /\ variant \in {"explorer", "basic", "simple"}
    /\ resp.ep \in {"file", "download"}
    /\ resp.root # Null
    /\ Contained(resp.root, resp.p)
    /\ KindOf(fs, Target(resp.root, resp.p)) = "ENOENT"

\* C18: with a root configured, GET /api/file and GET /api/download for a
\* path inside the root that names no existing entry answer 404.
C18_MissingIs404 == MissingInsideRoot => resp.status = 404

\* an enumeration request that reached its top directory, which cannot be
\* read
TopUnreadable ==
    /\ \/ variant = "capped" /\ resp.ep = "folder"
       \/ variant \in {"explorer", "basic"} /\ resp.ep \in {"folders", "home-structure"}
       \/ variant = "simple" /\ resp.ep = "structure"
    /\ resp.status \notin {400, 403}
    /\ IsErr(FsReaddir(fs, TopDir))

\* C19: when the top directory of an enumeration cannot be read the answer
\* is a 5xx carrying the underlying error, not a 200 with an empty tree.
C19_UnreadableTopIs5xx ==
    TopUnreadable
        => /\ resp.status >= 500
           /\ resp.body = ErrBody(FsReaddir(fs, TopDir).val)

\* GET /api/folders with the empty relative path and a root configured
RootRequested ==
    /\ variant \in {"explorer", "basic"}
    /\ resp.ep = "folders"
    /\ resp.p = <<>>
    /\ resp.root # Null

\* the root is a directory the process can read, and its entries
RootReadable ==
    /\ KindOf(fs, CanonSegs(resp.root)) = "dir"
    /\ CanonStr(CanonSegs(resp.root)) \notin fs.noread

RootEntries ==
    {fs.ents[CanonStr(CanonSegs(resp.root))][i] :
         i \in DOMAIN fs.ents[CanonStr(CanonSegs(resp.root))]}

\* the listing gives the directories of the root as folders and everything
\* else in it as files
ListsRoot ==
    /\ Len(resp.body.folders) + Len(resp.body.files) = Cardinality(RootEntries)
    /\ {resp.body.folders[i].name : i \in DOMAIN resp.body.folders}
           = {e.name : e \in {x \in RootEntries : x.kind = "dir"}}
    /\ {resp.body.files[i].name : i \in DOMAIN resp.body.files}
           = {e.name : e \in {x \in RootEntries : x.kind # "dir"}}

\* C20: with a root R configured, GET /api/folders with the empty path
\* passes the guard and reads R itself: the answer is 200 with the folders
\* and files directly in R when R can be read, and the 500 of a failed read
\* otherwise.
C20_RootListed ==
    RootRequested
        => /\ resp.ops # <<>>
           /\ resp.ops[1].op = "readdir"
           /\ CanonSegs(resp.ops[1].path) = CanonSegs(resp.root)
           /\ IF RootReadable THEN resp.status = 200 /\ ListsRoot
              ELSE resp.status = 500

C20_Witness ==
    /\ RootRequested
    /\ RootReadable
    /\ resp.status = 200
    /\ resp.body.folders # <<>>
    /\ resp.body.files # <<>>

\* C20 as stated: whenever the root is a directory, the answer is the 200
\* listing of R
C20_RootAlwaysListed ==
    (RootRequested /\ KindOf(fs, CanonSegs(resp.root)) = "dir")
        => resp.status = 200 /\ ListsRoot

(***************************************************************************)
(* The frame of the GET endpoints.                                         *)
(***************************************************************************)
GetEndpoints == {"root-info", "folders", "structure", "home-structure", "file",
                 "download"}

\* C29: every step in which a GET endpoint answers, whatever the answer,
\* leaves the root configuration as it was; the configuration differs after
\* a step only when that step is a POST /api/set-root answering 200.
C29_GetLeavesRoot ==
    [][ /\ (resp = Idle /\ resp'.ep \in GetEndpoints)
            => ROOT_FOLDER' = ROOT_FOLDER
        /\ ROOT_FOLDER' # ROOT_FOLDER
            => resp'.ep = "set-root" /\ resp'.status = 200 ]_vars

\* a GET endpoint answered with a failure while a root set by set-root is
\* configured, and the root is still that root
C29_Witness ==
    /\ resp.ep \in GetEndpoints
    /\ resp.status \in {403, 404, 500}
    /\ lastSet # Null
    /\ ROOT_FOLDER = resp.root

(***************************************************************************)
(* The enumerator with the allow-list of file types.                       *)
(***************************************************************************)
\* the extensions the specification allows
AllowList == {<<".", "x", "l", "s">>, <<".", "x", "l", "s", "x">>,
              <<".", "d", "o", "c">>, <<".", "d", "o", "c", "x">>,
              <<".", "c", "s", "v">>, <<".", "t", "x", "t">>,
              <<".", "p", "d", "f">>, <<".", "j", "p", "g">>,
              <<".", "p", "n", "g">>}

\* GET /api/structure answered with the tree of a root that can be read
StructureServed ==
    /\ variant = "simple"
    /\ resp.ep = "structure"
    /\ resp.status = 200
    /\ resp.root # Null
    /\ ~IsErr(FsReaddir(fs, resp.root))

Allowed(name) == ToLowerCase(PathExtname(name)) \in AllowList

ListedFiles == {resp.body.files[i] : i \in DOMAIN resp.body.files}

\* C27: the enumerator of /api/structure lists a file exactly when its
\* extension in lower case is on the allow-list, lists every folder, and
\* gives each listed file its extension without the dot as type.
C27_AllowList ==
    StructureServed
        => /\ {n.name : n \in ListedFiles}
                  = {e.name : e \in {x \in TopEntries : x.kind # "dir" /\ Allowed(x.name)}}
           /\ {resp.body.folders[i].name : i \in DOMAIN resp.body.folders}
                  = {e.name : e \in {x \in TopEntries : x.kind = "dir"}}
           /\ \A n \in ListedFiles :
                  <<".">> \o n.type = ToLowerCase(PathExtname(n.name))

\* a root with allowed files in lower and upper case, files that are not
\* allowed, and a folder
C27_Witness ==
    /\ StructureServed
    /\ \E e \in TopEntries : e.kind = "file" /\ ~Allowed(e.name)
    /\ \E e \in TopEntries : e.kind = "file" /\ Allowed(e.name)
                                /\ PathExtname(e.name) \notin AllowList
    /\ resp.body.folders # <<>>
    /\ Len(resp.body.files) >= 9

(***************************************************************************)
(* The shape of a listing.                                                 *)
(***************************************************************************)
\* the sub-folder nodes of a folder node
ChildFolders(n) == IF "subFolders" \in DOMAIN n THEN n.subFolders ELSE n.folders

\* the folders of a returned tree, each as the list of names leading to it
RECURSIVE TreeDirs(_)
TreeDirs(nodes) ==
    UNION {{<<nodes[i].name>>}
           \cup {<<nodes[i].name>> \o q : q \in TreeDirs(ChildFolders(nodes[i]))} :
               i \in DOMAIN nodes}

\* the directories on disk below a directory, each as the list of names
\* leading to it; nothing is below a directory that cannot be read
RECURSIVE DirsBelow(_, _)
DirsBelow(f, segs) ==
    IF CanonStr(segs) \notin DOMAIN f.ents \/ CanonStr(segs) \in f.noread THEN {}
    ELSE UNION {{<<f.ents[CanonStr(segs)][i].name>>}
                \cup {<<f.ents[CanonStr(segs)][i].name>> \o q :
                          q \in DirsBelow(f, Append(segs, f.ents[CanonStr(segs)][i].name))} :
                    i \in {j \in DOMAIN f.ents[CanonStr(segs)] :
                               f.ents[CanonStr(segs)][j].kind = "dir"}}

\* a listing of a directory that could be read
ListingServed ==
    /\ resp.status = 200
    /\ \/ variant \in {"explorer", "basic"} /\ resp.ep = "folders"
       \/ variant = "simple" /\ resp.ep = "structure" /\ resp.root # Null
    /\ ~IsErr(FsReaddir(fs, TopDir))

\* the files of the level listed: every entry that is no directory, or of
\* them those on the allow-list in the server that filters
LevelFiles ==
    {e.name : e \in {x \in TopEntries :
                         /\ x.kind # "dir"
                         /\ variant = "simple" => Allowed(x.name)}}

\* C26: a listing holds the files of the listed directory only, and each
\* folder it returns carries the whole tree of its sub-folders and no files.
C26_OneLevelOfFiles ==
    ListingServed
        => /\ {resp.body.files[i].name : i \in DOMAIN resp.body.files} = LevelFiles
           /\ TreeDirs(resp.body.folders) = DirsBelow(fs, CanonSegs(TopDir))
           /\ \A i \in DOMAIN resp.body.folders :
                  "files" \in DOMAIN resp.body.folders[i]
                      => resp.body.folders[i].files = <<>>

(***************************************************************************)
(* The paths a listing returns.                                            *)
(***************************************************************************)
\* the entries of a listing that carry a path, each with the place on disk
\* it was listed for, at every level of the tree
RECURSIVE Listed(_, _, _)
Listed(folders, files, at) ==
    {[path |-> files[i].path, at |-> Append(at, files[i].name), folder |-> FALSE] :
         i \in DOMAIN files}
    \cup {[path |-> folders[i].path, at |-> Append(at, folders[i].name),
           folder |-> TRUE] : i \in DOMAIN folders}
    \cup UNION {IF "files" \in DOMAIN folders[i]
                THEN Listed(folders[i].folders, folders[i].files,
                            Append(at, folders[i].name))
                ELSE {} : i \in DOMAIN folders}

\* the endpoints of the server that take the path of such an entry
EndpointsFor(x) ==
    IF x.folder
    THEN (IF variant = "simple" THEN {} ELSE {"folders"})
    ELSE (IF variant = "basic" THEN {"file"} ELSE {"file", "download"})

\* the request passes the guard and its first call is on the place given
Addresses(reply, at) ==
    /\ reply.status \notin {400, 403}
    /\ reply.ops # <<>>
    /\ CanonSegs(reply.ops[1].path) = at

CapOf == IF resp.ep = "getFolderStructure" THEN resp.body.maxDepth ELSE 3

\* the nodes of a returned tree, each as the list of names leading to it
RECURSIVE TreePaths(_)
TreePaths(nodes) ==
    UNION {{<<nodes[i].name>>}
           \cup (IF nodes[i].type = "folder"
                 THEN {<<nodes[i].name>> \o q : q \in TreePaths(nodes[i].children)}
                 ELSE {}) : i \in DOMAIN nodes}

\* the entries on disk down to a number of levels below a directory, the
\* excluded names and what is in them left out
RECURSIVE DiskPaths(_, _, _)
DiskPaths(f, segs, levels) ==
    IF levels = 0 \/ KindOf(f, segs) # "dir" \/ CanonStr(segs) \in f.noread THEN {}
    ELSE UNION {{<<f.ents[CanonStr(segs)][i].name>>}
                \cup {<<f.ents[CanonStr(segs)][i].name>> \o q :
                          q \in DiskPaths(f, Append(segs, f.ents[CanonStr(segs)][i].name),
                                          levels - 1)} :
                    i \in {j \in DOMAIN f.ents[CanonStr(segs)] :
                               /\ ~Excluded(f.ents[CanonStr(segs)][j].name)
                               /\ f.ents[CanonStr(segs)][j].name # nGit}}

\* the depth-capped enumerator answered for a directory it could read
CappedServed ==
    /\ variant = "capped"
    /\ \/ resp.ep \in {"index", "folder"} /\ resp.status = 200
       \/ resp.ep = "getFolderStructure" /\ resp.body.maxDepth > 0
    /\ ~IsErr(FsReaddir(fs, TopDir))

\* C24: with cap d the tree of the depth-capped enumerator has no node more
\* than d levels below the enumerated directory, and holds every entry that
\* is not excluded down to level d; so a directory at level d has no
\* children in the tree whatever it holds on disk.
C24_DepthCap ==
    CappedServed
        => /\ ~resp.body.isNull
           /\ TreePaths(resp.body.structure) = DiskPaths(fs, CanonSegs(TopDir), CapOf)
           /\ \A q \in TreePaths(resp.body.structure) : Len(q) <= CapOf

(***************************************************************************)
(* An extractor that is installed and throws.                              *)
(***************************************************************************)
\* the library the switch hands a file of that extension to, where it has one
ExtractorOf(ext) ==
    IF ext = extPdf THEN "pdf-parse"
    ELSE IF ext \in {extXlsx, extXls} THEN "xlsx"
    ELSE IF ext = extDocx THEN "mammoth"
    ELSE "none"

\* the file asked for went to a library that is installed and throws on it
ExtractorRaised ==
    /\ variant = "enhanced"
    /\ OnExistingFile
    /\ ExtractorOf(TargetExt) \in rejects

\* C23: when the extractor of a PDF or office format is installed and
\* throws on the file, the descriptor carries the placeholder content of the
\* same request with the extractor absent, downloadable = TRUE, and the
\* request is answered 200.
C23_RaisingExtractorFallsBack ==
    ExtractorRaised
        => /\ Described
           /\ Descriptor.downloadable
           /\ Descriptor.content
                  = EnhancedOfficeContent(fs, ContentTarget, TargetExt, {}, {})

\* so much of it holds: the request is answered 200 with downloadable = TRUE
C23_StillAnswered ==
    ExtractorRaised => Described /\ Descriptor.downloadable

(***************************************************************************)
(* The handlers of file_explorer_app.js and part_001 step by step.  Node   *)
(* runs a handler without interruption up to its next await, so a step is  *)
(* the code between two awaits; the steps of several requests interleave.  *)
(***************************************************************************)
\* the requests the server can hold at a time
MaxRequests == 2
Requests == 1..MaxRequests

\* the folderPath of the set-root calls that race
RaceRoots == {Null, <<SLASH, "r">>, <<SLASH, "r", SLASH, "a">>,
              <<SLASH, "r", SLASH, "f">>}

\* the requests that race with them: a directory, a file, a path out of
\* the root
RaceGets == {<<"folders", nA>>, <<"folders", JoinSegs(<<DOTDOT, nRE>>)>>,
             <<"file", nF>>, <<"file", nA>>,
             <<"download", nF>>, <<"download", nA>>}

AwaitOf(ep) == IF ep = "folders" THEN "readdir" ELSE "access"

\* a request: the endpoint and its input, where its handler stands, the
\* local fullPath, the number of responses sent and the last of them; root0
\* records ROOT_FOLDER at the time the handler started
NoRequest ==
    [ep |-> "none", p |-> <<>>, pc |-> "free", fullPath |-> <<>>, root0 |-> Null,
     sent |-> 0, reply |-> Reply(0, <<>>, [none |-> TRUE])]

Arrived(ep, p, root) == [NoRequest EXCEPT !.ep = ep, !.p = p, !.root0 = root]

\* res.json(...) / res.sendFile(...)
Send(r, reply) == [r EXCEPT !.sent = @ + 1, !.reply = reply]
\* return, or the end of the handler
Return(r) == [r EXCEPT !.pc = "done"]
\* await
Await(r, pc) == [r EXCEPT !.pc = pc]

\* a handler whose 400 is sent without return: path.join(null, ...) then
\* throws and the catch sends again
BeginGetNoReturn(root, r) ==
    IF root = Null
    THEN Return(Send(Send(r, Reply(400, <<>>, ErrBody("Root folder not configured"))),
                     Reply(500, <<>>, ErrBody("TypeError"))))
    ELSE IF AccessDenied(root, r.p)
    THEN Return(Send(r, Reply(403, <<>>, ErrBody("Access denied"))))
    ELSE Await([r EXCEPT !.fullPath = FullPath(root, r.p)], AwaitOf(r.ep))

\* /api/folders, /api/file, /api/download up to the first await: the check
\* of the root, the join and the guard read ROOT_FOLDER in one step
BeginGet(root, r) ==
    IF root = Null
    THEN Return(Send(r, Reply(400, <<>>, ErrBody("Root folder not configured"))))
    ELSE IF AccessDenied(root, r.p)
    THEN Return(Send(r, Reply(403, <<>>, ErrBody("Access denied"))))
    ELSE Await([r EXCEPT !.fullPath = FullPath(root, r.p)], AwaitOf(r.ep))

\* the response of the handler once its awaits are over
LastReply(f, r) ==
    IF r.ep = "folders" THEN ListFolder(f, r.fullPath, r.p)
    ELSE IF r.ep = "file" THEN ReadFile(f, r.fullPath)
    ELSE IF ~FsAccess(f, r.fullPath)
    THEN Reply(404, <<Op("access", r.fullPath)>>, ErrBody("File not found"))
    ELSE SendFile(f, r.fullPath)

\* a continuation that joins the path with ROOT_FOLDER again
AfterAwaitRejoining(f, r) ==
    IF r.pc = "readdir" /\ ~IsErr(FsReaddir(f, FullPath(ROOT_FOLDER, r.p)))
    THEN Await(r, "subfolders")
    ELSE IF r.pc = "access" /\ r.ep = "file" /\ FsAccess(f, FullPath(ROOT_FOLDER, r.p))
    THEN Await(r, "readFileContent")
    ELSE Return(Send(r, LastReply(f, [r EXCEPT !.fullPath = FullPath(ROOT_FOLDER, r.p)])))

\* from one await to the next, or to the response: only the local fullPath
\* and the request's own path are used
AfterAwait(f, r) ==
    IF r.pc = "readdir" /\ ~IsErr(FsReaddir(f, r.fullPath))
    THEN Await(r, "subfolders")
    ELSE IF r.pc = "access" /\ r.ep = "file" /\ FsAccess(f, r.fullPath)
    THEN Await(r, "readFileContent")
    ELSE Return(Send(r, LastReply(f, r)))

\* POST /api/set-root up to await fs.stat
BeginSetRoot(r) ==
    IF r.p = Null
    THEN Return(Send(r, Reply(400, <<>>, ErrBody("Folder path is required"))))
    ELSE Await(r, "stat")

\* a request arrives and its handler runs to its first await
StartGet(id, ep, p) ==
    /\ proc = "running"
    /\ inflight[id].pc = "free"
    /\ inflight' = [inflight EXCEPT ![id] = BeginGet(ROOT_FOLDER, Arrived(ep, p, ROOT_FOLDER))]
    /\ UNCHANGED <<variant, fs, envRoot, libs, rejects, walk, proc, ROOT_FOLDER, sampleMade, resp, lastSet>>

StartSetRoot(id, folderPath) ==
    /\ proc = "running"
    /\ inflight[id].pc = "free"
    /\ inflight' = [inflight EXCEPT ![id] = BeginSetRoot(Arrived("set-root", folderPath, ROOT_FOLDER))]
    /\ UNCHANGED <<variant, fs, envRoot, libs, rejects, walk, proc, ROOT_FOLDER, sampleMade, resp, lastSet>>

\* an awaited filesystem call of a GET handler completes
Continue(id) ==
    /\ inflight[id].pc \in {"readdir", "subfolders", "access", "readFileContent"}
    /\ inflight' = [inflight EXCEPT ![id] = AfterAwait(fs, inflight[id])]
    /\ UNCHANGED <<variant, fs, envRoot, libs, rejects, walk, proc, ROOT_FOLDER, sampleMade, resp, lastSet>>

\* a set-root that assigns only when no other call has assigned since it
\* started
SetRootFirstWins(id, out) ==
    /\ ROOT_FOLDER' = IF ROOT_FOLDER = inflight[id].root0 THEN out.root ELSE ROOT_FOLDER
    /\ inflight' = [inflight EXCEPT ![id] = Return(Send(inflight[id], out.reply))]
    /\ lastSet' = IF out.reply.status = 200 THEN inflight[id].p ELSE lastSet

\* the fs.stat of set-root completes: the rest of the handler, assignment
\* and response, is one step
SetRootFinished(id, out) ==
    /\ ROOT_FOLDER' = out.root
    /\ inflight' = [inflight EXCEPT ![id] = Return(Send(inflight[id], out.reply))]
    /\ lastSet' = IF out.reply.status = 200 THEN inflight[id].p ELSE lastSet

ContinueSetRoot(id) ==
    /\ inflight[id].pc = "stat"
    /\ SetRootFinished(id, SetRootOf(ROOT_FOLDER, inflight[id].p,
                                     FsStat(fs, inflight[id].p)))
    /\ UNCHANGED <<variant, fs, envRoot, libs, rejects, walk, proc, sampleMade, resp>>

\* the client has its response
Take(id) ==
    /\ inflight[id].pc = "done"
    /\ inflight' = [inflight EXCEPT ![id] = NoRequest]
    /\ UNCHANGED <<variant, fs, envRoot, libs, rejects, walk, proc, ROOT_FOLDER, sampleMade, resp, lastSet>>

\* /r holds the directory a and the file f, /r/a holds a file f
RaceFileSystem ==
    [ents |-> (CanonStr(<<>>) :> <<Dir(nR)>>)
              @@ (CanonStr(<<nR>>) :> <<Dir(nA), File(nF)>>)
              @@ (CanonStr(<<nR, nA>>) :> <<File(nF)>>),
     noread |-> {},
     data |-> [d \in {} |-> <<>>]]

InitRace ==
    /\ variant = "explorer"
    /\ fs = RaceFileSystem
    /\ proc = "running"
    /\ envRoot \in {Null, <<SLASH, "r">>}
    /\ libs = {}
    /\ rejects = {}
    /\ inflight = [id \in Requests |-> NoRequest]
    /\ walk = <<>>
    /\ ROOT_FOLDER = envRoot
    /\ sampleMade = FALSE
    /\ resp = Idle
    /\ lastSet = Null

NextRace ==
    \/ \E id \in Requests, get \in RaceGets : StartGet(id, get[1], get[2])
    \/ \E id \in Requests, folderPath \in RaceRoots : StartSetRoot(id, folderPath)
    \/ \E id \in Requests : Continue(id)
    \/ \E id \in Requests : ContinueSetRoot(id)
    \/ \E id \in Requests : Take(id)

SpecRace == InitRace /\ [][NextRace]_vars

(***************************************************************************)
(* Requests racing with set-root.                                          *)
(***************************************************************************)
\* what the handler of a GET endpoint answers when it runs alone
AloneReply(ep, root, f, p) ==
    IF ep = "folders" THEN FoldersHandler(root, f, p)
    ELSE IF ep = "file" THEN FileHandler(root, f, p)
    ELSE DownloadHandler(root, f, p)

\* the answered requests for a tree, a file or a download
AnsweredGets ==
    {id \in Requests : inflight[id].pc = "done" /\ inflight[id].ep # "set-root"}

\* C21: however the steps of a set-root and of a request for a tree, a file
\* or a download interleave, the request is answered as its handler answers
\* alone under one root, the one in force when it started: the path is
\* joined with, checked against and read under that same root.
C21_OneRootPerRequest ==
    \A id \in AnsweredGets :
        inflight[id].reply
            = AloneReply(inflight[id].ep, inflight[id].root0, fs, inflight[id].p)

\* a request was answered from the root it started with after a set-root
\* had replaced that root
C21_Witness ==
    \E id \in AnsweredGets :
        /\ inflight[id].reply.status = 200
        /\ inflight[id].root0 # ROOT_FOLDER
        /\ inflight[id].reply
               # AloneReply(inflight[id].ep, ROOT_FOLDER, fs, inflight[id].p)

(***************************************************************************)
(* Several set-root calls racing.                                          *)
(***************************************************************************)
\* the set-root calls answered in this step
SetRootAnswered ==
    {id \in Requests : /\ inflight'[id].ep = "set-root"
                       /\ inflight[id].pc # "done"
                       /\ inflight'[id].pc = "done"}

\* a step changes the root only by answering a set-root with 200, the root
\* is then the canonical path of that call, and the response reports it
AssignsOwnRoot ==
    /\ \A id \in SetRootAnswered :
           IF inflight'[id].reply.status = 200
           THEN /\ ROOT_FOLDER' = PathResolve(inflight'[id].p)
                /\ inflight'[id].reply.body.rootPath = ROOT_FOLDER'
           ELSE /\ inflight'[id].reply.status = 400
                /\ ROOT_FOLDER' = ROOT_FOLDER
    /\ SetRootAnswered = {} => ROOT_FOLDER' = ROOT_FOLDER

\* the root is that of the last set-root answered 200, or the initial one
LastValidWins ==
    ROOT_FOLDER = IF lastSet = Null THEN envRoot ELSE PathResolve(lastSet)

\* C22: however several set-root calls interleave, the root is the
\* canonical path of the valid call whose assignment ran last, a call
\* answered 400 leaves it as it was, and every call answered 200 reports
\* the root it assigned itself.
C22_LastValidSetRootWins ==
    []LastValidWins /\ [][AssignsOwnRoot]_vars

\* two set-root calls ran at the same time, one was answered 200 and the
\* other, started with another root in force, was answered 400
C22_Witness ==
    /\ \A id \in Requests : inflight[id].ep = "set-root" /\ inflight[id].pc = "done"
    /\ \E a, b \in Requests :
           /\ inflight[a].reply.status = 200
           /\ inflight[b].reply.status = 400
           /\ inflight[b].root0 # ROOT_FOLDER
           /\ ROOT_FOLDER = PathResolve(inflight[a].p)

(***************************************************************************)
(* One response per request.                                               *)
(***************************************************************************)
\* no handler has sent twice, and a handler that is over has sent
AtMostOneResponse ==
    \A id \in Requests :
        /\ inflight[id].sent <= 1
        /\ inflight[id].pc = "done" => inflight[id].sent = 1

\* how far a handler has come
Rank(pc) ==
    IF pc = "free" THEN 0
    ELSE IF pc \in {"stat", "readdir", "access"} THEN 1
    ELSE IF pc \in {"subfolders", "readFileContent"} THEN 2
    ELSE 3

\* a step that touches a request moves its handler forward, or hands the
\* response of a handler that is over to the client
Advances ==
    \A id \in Requests :
        \/ inflight'[id] = inflight[id]
        \/ Rank(inflight'[id].pc) > Rank(inflight[id].pc)
        \/ inflight[id].pc = "done" /\ inflight'[id] = NoRequest

\* a handler that waits can go on: the awaited call completes
CanGoOn ==
    \A id \in Requests :
        inflight[id].pc \notin {"free", "done"}
            => Rank(AfterAwait(fs, inflight[id]).pc) > Rank(inflight[id].pc)
               \/ inflight[id].pc = "stat"

\* C30: every request gets exactly one response on every path through its
\* handler: no handler sends twice, a handler that is over has sent once,
\* and every step of a handler brings it nearer to its end, so that, the
\* awaited filesystem calls completing, no handler is left without one.
C30_ExactlyOneResponse ==
    [](AtMostOneResponse /\ CanGoOn) /\ [][Advances]_vars

\* the paths through the handlers met at once: an early 400 and a response
\* after two awaits
C30_Witness ==
    \E a, b \in Requests :
        /\ inflight[a].pc = "done" /\ inflight[a].reply.status = 400
        /\ inflight[a].reply.ops = <<>>
        /\ inflight[b].pc = "done" /\ inflight[b].ep = "file"
        /\ inflight[b].reply.status = 200

(***************************************************************************)
(* getFolderStructure call by call, on trees with symbolic links: a call   *)
(* reads its directory, looks at one entry after the other and calls       *)
(* itself for those it takes for directories.                              *)
(***************************************************************************)
\* the calls the model lets nest
MaxNesting == 6

\* a symbolic link to a place
LinkTo(n) == [name |-> n, kind |-> "link"]

\* /r holds a, f and a link up to /r itself; /r/a holds b and a link to
\* /r/a; /r/a/b holds a, a link to /r and a link to nowhere
WalkFS(rEnts, aEnts, bEnts) ==
    [ents |-> (CanonStr(<<>>) :> <<Dir(nR)>>)
              @@ (CanonStr(<<nR>>) :> rEnts)
              @@ (CanonStr(<<nR, nA>>) :> aEnts)
              @@ (CanonStr(<<nR, nA, nB>>) :> bEnts)
              @@ (CanonStr(<<nR, nA, nB, nA>>) :> <<Dir(nB), File(nF)>>)
              @@ (CanonStr(<<nR, nA, nB, nA, nB>>) :> <<File(nF)>>),
     noread |-> {},
     data |-> [d \in {} |-> <<>>],
     links |-> (CanonStr(<<nR, nL>>) :> Ok(<<nR>>))
               @@ (CanonStr(<<nR, nA, nL>>) :> Ok(<<nR, nA>>))
               @@ (CanonStr(<<nR, nA, nB, nL>>) :> Ok(<<nR>>))
               @@ (CanonStr(<<nR, nA, nB, nG>>) :> Err("ENOENT"))]

WalkFileSystems ==
    { WalkFS(<<Dir(nA), File(nF), LinkTo(nL)>>, <<LinkTo(nL), Dir(nB)>>,
             <<Dir(nA), LinkTo(nL)>>),
      WalkFS(<<LinkTo(nL), Dir(nA)>>, <<Dir(nB), File(nF)>>, <<File(nF), Dir(nA)>>),
      WalkFS(<<Dir(nA), File(nF)>>, <<Dir(nB)>>, <<Dir(nA), LinkTo(nG), File(nF)>>),
      WalkFS(<<Dir(nA)>>, <<Dir(nB), LinkTo(nL)>>, <<LinkTo(nL)>>) }

\* the directories enumerated
WalkTops == {<<nR>>, <<nR, nA>>}

\* a call: the directory it reads (where the path leads, links followed),
\* the entries it has not looked at yet, and its currentDepth
Call(f, dir, depth) == [dir |-> dir, items |-> f.ents[CanonStr(dir)], depth |-> depth]

\* where an entry leads: a link leads to its target
LeadsTo(f, dir, item) ==
    IF item.kind = "link" THEN f.links[CanonStr(Append(dir, item.name))]
    ELSE Ok(Append(dir, item.name))

\* fs.stat(itemPath).isDirectory(): links are followed (those of these trees
\* lead to directories), a link to nowhere is an error
StatIsDirectory(f, dir, item) ==
    IF IsErr(LeadsTo(f, dir, item)) THEN LeadsTo(f, dir, item)
    ELSE Ok(item.kind # "file")

\* the calls after the entry at hand is done with
Rest(calls) == <<[Head(calls) EXCEPT !.items = Tail(@)]>> \o Tail(calls)

\* an enumerator that takes a link to a directory for a directory
AfterDirentFollowing(f, calls) ==
    IF Head(calls).items = <<>> THEN Tail(calls)
    ELSE IF StatIsDirectory(f, Head(calls).dir, Head(Head(calls).items)) = Ok(TRUE)
    THEN <<Call(f, LeadsTo(f, Head(calls).dir, Head(Head(calls).items)).val,
                Head(calls).depth + 1)>> \o Rest(calls)
    ELSE Rest(calls)

\* a step of the enumerators that read with withFileTypes: item.isDirectory()
\* is false for a link, so only a real directory is entered
AfterDirent(f, calls) ==
    IF Head(calls).items = <<>> THEN Tail(calls)
    ELSE IF Head(Head(calls).items).kind = "dir"
    THEN <<Call(f, Append(Head(calls).dir, Head(Head(calls).items).name),
                Head(calls).depth + 1)>> \o Rest(calls)
    ELSE Rest(calls)

\* a step of the enumerator of folder_structure_app.js, given what fs.stat
\* said: an error ends the call, a directory is entered unless the call for
\* it returns at once at the cap
AfterStat(f, calls, maxDepth, isDir) ==
    IF IsErr(isDir) THEN Tail(calls)
    ELSE IF isDir.val /\ Head(calls).depth + 1 < maxDepth
    THEN <<Call(f, LeadsTo(f, Head(calls).dir, Head(Head(calls).items)).val,
                Head(calls).depth + 1)>> \o Rest(calls)
    ELSE Rest(calls)

AfterItem(f, calls, maxDepth) ==
    IF Head(calls).items = <<>> THEN Tail(calls)
    ELSE IF Skipped(Head(Head(calls).items).name) THEN Rest(calls)
    ELSE AfterStat(f, calls, maxDepth,
                   StatIsDirectory(f, Head(calls).dir, Head(Head(calls).items)))

\* the enumeration is called on a directory
WalkStart(top) ==
    /\ walk = <<>>
    /\ walk' = [calls |-> <<Call(fs, top, 0)>>]
    /\ UNCHANGED <<variant, fs, envRoot, libs, rejects, inflight, proc, ROOT_FOLDER, sampleMade, resp, lastSet>>

\* file_explorer_app.js, part_000: one entry looked at, or a call returns
DirentStep ==
    /\ walk # <<>>
    /\ variant \in {"explorer", "simple"}
    /\ walk.calls # <<>>
    /\ Len(walk.calls) <= MaxNesting
    /\ walk' = [walk EXCEPT !.calls = AfterDirent(fs, walk.calls)]
    /\ UNCHANGED <<variant, fs, envRoot, libs, rejects, inflight, proc, ROOT_FOLDER, sampleMade, resp, lastSet>>

\* folder_structure_app.js: one entry looked at, or a call returns
StatStep ==
    /\ walk # <<>>
    /\ variant = "capped"
    /\ walk.calls # <<>>
    /\ Len(walk.calls) <= MaxNesting
    /\ walk' = [walk EXCEPT !.calls = AfterItem(fs, walk.calls, DefaultMaxDepth)]
    /\ UNCHANGED <<variant, fs, envRoot, libs, rejects, inflight, proc, ROOT_FOLDER, sampleMade, resp, lastSet>>

InitWalk ==
    /\ variant \in {"explorer", "simple", "capped"}
    /\ fs \in WalkFileSystems
    /\ proc = "running"
    /\ envRoot = <<SLASH, "r">>
    /\ libs = {}
    /\ rejects = {}
    /\ inflight = <<>>
    /\ walk = <<>>
    /\ ROOT_FOLDER = envRoot
    /\ sampleMade = FALSE
    /\ resp = Idle
    /\ lastSet = Null

NextWalk ==
    \/ \E top \in WalkTops : WalkStart(top)
    \/ DirentStep
    \/ StatStep

\* the awaited readdir and stat calls complete and node runs what follows
WalkFairness == WF_vars(DirentStep) /\ WF_vars(StatStep)

SpecWalk == InitWalk /\ [][NextWalk]_vars /\ WalkFairness

(***************************************************************************)
(* Termination of the enumeration.                                         *)
(***************************************************************************)
\* the number of directories of the tree, the root included
DirCount == Cardinality(DOMAIN fs.ents)

\* the enumeration has returned
WalkDone == walk # <<>> /\ walk.calls = <<>>

\* the calls nest no deeper than the cap, or, without a cap, than the tree
\* has directories
WalkBounded ==
    walk # <<>>
        => Len(walk.calls) <= (IF variant = "capped" THEN 3 ELSE DirCount)

\* C25: the enumeration terminates on every finite tree, link cycles
\* included: the calls nest no deeper than the tree has directories (no cap)
\* or than the cap, and, once called, the enumeration returns.
C25_EnumerationTerminates ==
    []WalkBounded /\ ((walk # <<>>) ~> WalkDone)

\* an enumeration has returned on a tree with a link up to the directory it
\* started from
C25_Witness ==
    /\ WalkDone
    /\ \E i \in DOMAIN fs.ents[CanonStr(<<nR>>)] :
           fs.ents[CanonStr(<<nR>>)][i].kind = "link"

====
